---------------------------- MODULE Spec2Model ----------------------------
(***************************************************************************)
(* conflux: the node-update pipeline (fetch, parse, ingress, egress,       *)
(* publish) and the override rewriting of the HTTP layer.                  *)
(*                                                                         *)
(* Go strings are TLA+ strings; TLC evaluates Len, SubSeq and \o on them,  *)
(* so every textual operation below works on the characters themselves.    *)
(* A code point outside ASCII (the regional-indicator symbols of a flag)   *)
(* is written as "^" followed by the ASCII letter it was computed from.    *)
(***************************************************************************)
EXTENDS Naturals, Sequences, FiniteSets, TLC

(***************************************************************************)
(* Go standard library: package strings                                    *)
(***************************************************************************)

\* s[i:] of Go, with i counted from 1
From(s, i) == SubSeq(s, i, Len(s))

\* the i-th character of s, as a string of length one
At(s, i) == SubSeq(s, i, i)

\* strings.HasPrefix
HasPrefix(s, p) == Len(p) <= Len(s) /\ SubSeq(s, 1, Len(p)) = p

\* strings.HasSuffix
HasSuffix(s, p) == Len(p) <= Len(s) /\ SubSeq(s, Len(s) - Len(p) + 1, Len(s)) = p

\* sub occurs in s at place i
OccursAt(s, sub, i) == SubSeq(s, i, i + Len(sub) - 1) = sub

\* strings.Index, counted from 1; 0 when sub does not occur (Go's -1)
Index(s, sub) ==
    LET places == {i \in 1..(Len(s) + 1 - Len(sub)) : OccursAt(s, sub, i)}
    IN  IF places = {} THEN 0
        ELSE CHOOSE i \in places : \A j \in places : i <= j

\* strings.Contains
Contains(s, sub) == Index(s, sub) # 0

\* unicode.IsSpace on the characters that occur
IsSpace(c) == c \in {" ", "\t", "\n", "\r"}

RECURSIVE TrimLeft(_)
TrimLeft(s) == IF Len(s) > 0 /\ IsSpace(At(s, 1)) THEN TrimLeft(From(s, 2)) ELSE s

RECURSIVE TrimRight(_)
TrimRight(s) ==
    IF Len(s) > 0 /\ IsSpace(At(s, Len(s))) THEN TrimRight(SubSeq(s, 1, Len(s) - 1)) ELSE s

\* strings.TrimSpace
TrimSpace(s) == TrimRight(TrimLeft(s))

\* strings.TrimPrefix
TrimPrefix(s, p) == IF HasPrefix(s, p) THEN From(s, Len(p) + 1) ELSE s

\* strings.Split(s, sep) for a non-empty sep: always at least one field
RECURSIVE Split(_, _)
Split(s, sep) ==
    LET i == Index(s, sep)
    IN  IF i = 0 THEN <<s>>
        ELSE <<SubSeq(s, 1, i - 1)>> \o Split(From(s, i + Len(sep)), sep)

\* strings.SplitN(s, sep, 2): one field without sep, else the text before
\* and the text after its first occurrence
SplitN2(s, sep) ==
    LET i == Index(s, sep)
    IN  IF i = 0 THEN <<s>> ELSE <<SubSeq(s, 1, i - 1), From(s, i + Len(sep))>>

\* strings.Join
RECURSIVE Join(_, _)
Join(parts, sep) ==
    IF Len(parts) = 0 THEN ""
    ELSE IF Len(parts) = 1 THEN parts[1]
    ELSE parts[1] \o sep \o Join(Tail(parts), sep)

\* strings.ReplaceAll for a non-empty old: left to right, non-overlapping
RECURSIVE ReplaceAll(_, _, _)
ReplaceAll(s, old, new) ==
    LET i == Index(s, old)
    IN  IF i = 0 THEN s
        ELSE SubSeq(s, 1, i - 1) \o new \o ReplaceAll(From(s, i + Len(old)), old, new)

\* the bytes that occur, in ascending byte order ("^" stands for the
\* lead of a code point beyond ASCII and is placed last)
ByteOrder == "\t\n\r !#()*+,-./0123456789:=ABCDEFGHIJKLMNOPQRSTUVWXYZ[]_abcdefghijklmnopqrstuvwxyz|^"

Ord(c) == Index(ByteOrder, c)

\* the < of Go on strings: bytewise lexicographic
RECURSIVE StrLess(_, _)
StrLess(a, b) ==
    IF Len(b) = 0 THEN FALSE
    ELSE IF Len(a) = 0 THEN TRUE
    ELSE IF At(a, 1) = At(b, 1) THEN StrLess(From(a, 2), From(b, 2))
    ELSE Ord(At(a, 1)) < Ord(At(b, 1))

IsDigit(c) == c # "" /\ Contains("0123456789", c)

DigitVal(c) == Index("0123456789", c) - 1

RECURSIVE Atoi(_)
Atoi(s) == IF Len(s) = 0 THEN 0 ELSE 10 * Atoi(SubSeq(s, 1, Len(s) - 1)) + DigitVal(At(s, Len(s)))

RECURSIVE Itoa(_)
Itoa(n) == IF n < 10 THEN At("0123456789", n + 1) ELSE Itoa(n \div 10) \o At("0123456789", (n % 10) + 1)

\* fmt's %02d for a non-negative number
Pad02(n) == IF n < 10 THEN "0" \o Itoa(n) ELSE Itoa(n)

\* the elements of a sequence
Range(seq) == {seq[i] : i \in 1..Len(seq)}

(***************************************************************************)
(* Go maps (map[string]string) as functions with a finite domain           *)
(***************************************************************************)

EmptyMap == [k \in {} |-> ""]

\* m[k] of Go: the zero value for a missing key
MapGet(m, k) == IF k \in DOMAIN m THEN m[k] ELSE ""

\* m[k] = v of Go
MapPut(m, k, v) == [x \in (DOMAIN m) \cup {k} |-> IF x = k THEN v ELSE m[x]]

(***************************************************************************)
(* net.ParseIP                                                             *)
(***************************************************************************)

\* one dotted-decimal field: 1 to 3 digits, at most 255, no leading zero
IsIPv4Field(f) ==
    /\ Len(f) \in 1..3
    /\ \A i \in 1..Len(f) : IsDigit(At(f, i))
    /\ (Len(f) > 1 => At(f, 1) # "0")
    /\ Atoi(f) <= 255

IsIPv4(s) ==
    LET fields == Split(s, ".")
    IN  Len(fields) = 4 /\ \A i \in 1..4 : IsIPv4Field(fields[i])

IsHexChar(c) == c # "" /\ Contains("0123456789abcdefABCDEF", c)

\* the colon-hex forms of IPv6, with at most one "::" (an embedded dotted
\* quad and a zone are not modelled: no input of the model carries one)
IsIPv6(s) ==
    LET fields == Split(s, ":")
        groups == SelectSeq(fields, LAMBDA f : f # "")
        dbl    == Index(s, "::")
    IN  /\ Contains(s, ":")
        /\ \A i \in 1..Len(s) : IsHexChar(At(s, i)) \/ At(s, i) = ":"
        /\ \A i \in 1..Len(groups) : Len(groups[i]) <= 4
        /\ IF dbl = 0
           THEN Len(fields) = 8 /\ Len(groups) = 8
           ELSE /\ ~Contains(From(s, dbl + 1), "::")
                /\ Len(groups) <= 7
                /\ (HasPrefix(s, ":") => dbl = 1)
                /\ (HasSuffix(s, ":") => dbl = Len(s) - 1)

(***************************************************************************)
(* ingress.go: classification, keys, SNI                                   *)
(***************************************************************************)

\* isIP: net.ParseIP(server) != nil
isIP(server) == IsIPv4(server) \/ IsIPv6(server)

\* needSNI
needSNI(typ) == typ = "trojan" \/ typ = "vmess"

\* isDomain
isDomain(server) == ~isIP(server) /\ Contains(server, ".")

\* a key that tells the sources apart as well
uniqueKeyOfSource(n) == n.Source \o "|" \o n.Type \o "|" \o n.Server \o "|" \o n.Port

\* uniqueKey: fmt.Sprintf("%s|%s|%s", n.Type, n.Server, n.Port)
uniqueKey(n) == n.Type \o "|" \o n.Server \o "|" \o n.Port

(***************************************************************************)
(* update.go: configuration and parser                                     *)
(***************************************************************************)

\* parseSubEnv: the entries of "name=url||name=url", trimmed; an entry
\* without "=" is dropped
RECURSIVE SubEnvFold(_, _)
SubEnvFold(parts, result) ==
    IF Len(parts) = 0 THEN result
    ELSE LET kv == SplitN2(parts[1], "=")
         IN  SubEnvFold(Tail(parts),
                 IF Len(kv) = 2
                 THEN MapPut(result, TrimSpace(kv[1]), TrimSpace(kv[2]))
                 ELSE result)

parseSubEnv(sub) == SubEnvFold(Split(sub, "||"), EmptyMap)

\* the loop of extractProxyLines from one line on; inProxy is its flag
RECURSIVE ExtractFrom(_, _)
ExtractFrom(lines, inProxy) ==
    IF Len(lines) = 0 THEN <<>>
    ELSE LET line == TrimSpace(lines[1])
         IN  IF HasPrefix(line, "[Proxy]") THEN ExtractFrom(Tail(lines), TRUE)
             ELSE IF ~inProxy THEN ExtractFrom(Tail(lines), FALSE)
             ELSE IF line = "" \/ HasPrefix(line, "[") THEN <<>>
             ELSE (IF /\ ~HasPrefix(line, "#")
                      /\ ~Contains(line, "reject")
                      /\ ~Contains(line, "direct")
                   THEN <<line>> ELSE <<>>) \o ExtractFrom(Tail(lines), TRUE)

extractProxyLines(lines) == ExtractFrom(lines, FALSE)

\* a parameter loop that keeps each token as it stands between the commas
RECURSIVE ParamFoldRaw(_, _)
ParamFoldRaw(tokens, acc) ==
    IF Len(tokens) = 0 THEN acc
    ELSE LET kv == SplitN2(TrimSpace(tokens[1]), "=")
         IN  ParamFoldRaw(Tail(tokens),
                 IF Len(kv) = 2
                 THEN [params |-> MapPut(acc.params, kv[1], kv[2]),
                       strs   |-> Append(acc.strs, tokens[1])]
                 ELSE acc)

\* the parameter loop of parseNodeLine: acc.params is the map, acc.strs
\* the tokens kept in order
RECURSIVE ParamFold(_, _)
ParamFold(tokens, acc) ==
    IF Len(tokens) = 0 THEN acc
    ELSE LET p  == TrimSpace(tokens[1])
             kv == SplitN2(p, "=")
         IN  ParamFold(Tail(tokens),
                 IF Len(kv) = 2
                 THEN [params |-> MapPut(acc.params, kv[1], kv[2]),
                       strs   |-> Append(acc.strs, p)]
                 ELSE acc)

NoNode ==
    [OriginName |-> "", Type |-> "", Server |-> "", Port |-> "", Params |-> 0,
     ParamString |-> "", Source |-> "", ISO |-> "", Emoji |-> ""]

\* parseNodeLine: ok, the node, and the map its Params field will point to
parseNodeLine(line, airport) ==
    LET parts == SplitN2(line, "=")
    IN  IF Len(parts) # 2 THEN [ok |-> FALSE, node |-> NoNode, params |-> EmptyMap]
        ELSE LET mainParts == Split(parts[2], ",")
             IN  IF Len(mainParts) < 3
                 THEN [ok |-> FALSE, node |-> NoNode, params |-> EmptyMap]
                 ELSE LET acc == ParamFold(SubSeq(mainParts, 4, Len(mainParts)),
                                           [params |-> EmptyMap, strs |-> <<>>])
                      IN  [ok     |-> TRUE,
                           node   |-> [OriginName  |-> TrimSpace(parts[1]),
                                       Type        |-> TrimSpace(mainParts[1]),
                                       Server      |-> TrimSpace(mainParts[2]),
                                       Port        |-> TrimSpace(mainParts[3]),
                                       Params      |-> 0,
                                       ParamString |-> Join(acc.strs, ","),
                                       Source      |-> airport,
                                       ISO         |-> "",
                                       Emoji       |-> ""],
                           params |-> acc.params]

(***************************************************************************)
(* egress: the probe of one node                                           *)
(***************************************************************************)

\* what one GET of a trace endpoint yields: TraceErr, or the body
TraceErr == [err |-> TRUE, body |-> ""]

TraceBody(text) == [err |-> FALSE, body |-> text]

\* the first line of a body that starts with "loc=", or <<>> without one
LocLines(body) == SelectSeq(Split(body, "\n"), LAMBDA l : HasPrefix(l, "loc="))

\* getProxyISO on the answers of the two endpoints, in order: the text after
\* "loc=" on the first such line of the first answer that has one
RECURSIVE getProxyISO(_)
getProxyISO(resps) ==
    IF Len(resps) = 0 THEN [err |-> TRUE, iso |-> ""]
    ELSE LET found == IF resps[1].err THEN <<>> ELSE LocLines(resps[1].body)
         IN  IF Len(found) = 0
             THEN getProxyISO(Tail(resps))
             ELSE [err |-> FALSE, iso |-> TrimPrefix(found[1], "loc=")]

\* the code point rune(c) - 'A' + 0x1F1E6
RegionalIndicator(c) == "^" \o c

\* U+1F30F, the entry of TW in emojiMap
GlobeAsia == "^*"

\* calculateEmojiFromISO indexes iso[0] and iso[1]: it panics on a shorter iso
calculateEmojiPanics(iso) == Len(iso) < 2

calculateEmojiFromISO(iso) == RegionalIndicator(At(iso, 1)) \o RegionalIndicator(At(iso, 2))

\* the keys of emojiMap; every entry but TW is the key's regional indicators
EmojiMapKeys == {"US", "HK", "JP", "SG", "KR", "TW", "GB", "DE", "FR", "CA", "AU", "NL"}

getEmojiPanics(iso) == iso \notin EmojiMapKeys /\ calculateEmojiPanics(iso)

getEmojiByISO(iso) ==
    IF iso \in EmojiMapKeys
    THEN (IF iso = "TW" THEN GlobeAsia
          ELSE RegionalIndicator(At(iso, 1)) \o RegionalIndicator(At(iso, 2)))
    ELSE calculateEmojiFromISO(iso)

(***************************************************************************)
(* update.go: the publisher                                                *)
(***************************************************************************)

\* the keys formatNode finds in ParamString
RECURSIVE OriginalParams(_)
OriginalParams(tokens) ==
    IF Len(tokens) = 0 THEN {}
    ELSE LET kv == SplitN2(TrimSpace(tokens[1]), "=")
         IN  (IF Len(kv) = 2 THEN {kv[1]} ELSE {}) \cup OriginalParams(Tail(tokens))

\* every key of the map but the internal one, also those of ParamString
AllKeys(n, m) == {k \in DOMAIN m : k # "_newname"}

\* the keys formatNode appends: those of the map that ParamString lacks,
\* the internal _newname left out
AddedKeys(n, m) ==
    LET orig == IF n.ParamString = "" THEN {}
                ELSE OriginalParams(Split(n.ParamString, ","))
    IN  {k \in DOMAIN m : k # "_newname" /\ k \notin orig}

\* the appending loop of formatNode over the added keys in the order the
\* map iteration yields them
RECURSIVE AppendParams(_, _, _)
AppendParams(params, m, order) ==
    IF Len(order) = 0 THEN params
    ELSE AppendParams((IF params # "" THEN params \o "," ELSE "")
                          \o order[1] \o "=" \o m[order[1]],
                      m, Tail(order))

\* all orders in which a range over a map can yield the keys in S
Orders(S) ==
    {f \in [1..Cardinality(S) -> S] : \A i, j \in 1..Cardinality(S) : i # j => f[i] # f[j]}

\* formatNode: "<newName> = <type>,<server>,<port>, <params>"
formatNode(n, m, newName, order) ==
    newName \o " = " \o n.Type \o "," \o n.Server \o "," \o n.Port \o ", "
        \o AppendParams(n.ParamString, m, order)

\* the number of nodes among the first i of the list with the source and
\* ISO of the i-th: the counter renameNodes and the grouping both reach
Ordinal(list, i) ==
    Cardinality({j \in 1..i : list[j].Source = list[i].Source /\ list[j].ISO = list[i].ISO})

\* renameNodes: fmt.Sprintf("%s %s%s-%02d", ...)
RenamedName(list, i) ==
    list[i].Source \o " " \o list[i].ISO \o list[i].Emoji \o "-" \o Pad02(Ordinal(list, i))

\* renameNodes from the i-th node on: each name is stored under _newname in
\* the map the node's Params points to
RECURSIVE renameFrom(_, _, _)
renameFrom(list, h, i) ==
    IF i > Len(list) THEN h
    ELSE renameFrom(list,
                    [h EXCEPT ![list[i].Params] =
                         MapPut(h[list[i].Params], "_newname", RenamedName(list, i))],
                    i + 1)

renameNodes(list, h) == renameFrom(list, h, 1)

\* the less of writeNodeConf's sort.Slice: by Source, then by OriginName
NodeLess(a, b) ==
    IF a.Source # b.Source THEN StrLess(a.Source, b.Source)
    ELSE StrLess(a.OriginName, b.OriginName)

\* sort.Slice sorts a slice of fewer than 12 elements by insertion: the
\* element moves left past every element it is less than
InsertNode(sorted, x) ==
    LET stay == {i \in 1..Len(sorted) : ~NodeLess(x, sorted[i])}
        k    == IF stay = {} THEN 0 ELSE CHOOSE i \in stay : \A j \in stay : j <= i
    IN  SubSeq(sorted, 1, k) \o <<x>> \o SubSeq(sorted, k + 1, Len(sorted))

RECURSIVE SortNodes(_)
SortNodes(list) ==
    IF Len(list) = 0 THEN <<>>
    ELSE InsertNode(SortNodes(SubSeq(list, 1, Len(list) - 1)), list[Len(list)])

\* the boolean substitutions of the publisher
Booleans(text) == ReplaceAll(ReplaceAll(text, "=true", "=1"), "=false", "=0")

\* the line writeNodeConf of update.go renders for a node
RenameLine(n, h, order) ==
    LET stored  == MapGet(h[n.Params], "_newname")
        newName == IF stored = "" THEN n.OriginName ELSE stored
    IN  Booleans(formatNode(n, h[n.Params], newName, order))

\* the group keys of the grouping writeNodeConf, sorted by sort.Strings
GroupKey(n) == n.Source \o "|" \o n.ISO

RECURSIVE SortStrings(_)
SortStrings(S) ==
    IF S = {} THEN <<>>
    ELSE LET least == CHOOSE x \in S : \A y \in S : ~StrLess(y, x)
         IN  <<least>> \o SortStrings(S \ {least})

\* the nodes in the order the grouping writeNodeConf emits them
RECURSIVE GroupedFrom(_, _)
GroupedFrom(list, keys) ==
    IF Len(keys) = 0 THEN <<>>
    ELSE SelectSeq(list, LAMBDA n : GroupKey(n) = keys[1]) \o GroupedFrom(list, Tail(keys))

Grouped(list) == GroupedFrom(list, SortStrings({GroupKey(list[i]) : i \in 1..Len(list)}))

\* a numbering that gives every node the ordinal 1
GroupOrdinalOne(list, i) == 1

\* j+1 of the grouping writeNodeConf: the place of the node in its group
GroupOrdinal(list, i) == Cardinality({j \in 1..i : GroupKey(list[j]) = GroupKey(list[i])})

\* fmt.Sprintf("%s [%s%s]-%02d", ...) of the grouping writeNodeConf
GroupedName(list, i) ==
    list[i].Source \o " [" \o list[i].ISO \o list[i].Emoji \o "]-" \o Pad02(GroupOrdinal(list, i))

\* the line the grouping writeNodeConf renders for the i-th node it emits
GroupLine(list, i, h, order) ==
    formatNode(list[i], h[list[i].Params], GroupedName(list, i), order)

\* a writeNodeConf without the test for blank content
WriteAlways(content) == TRUE

\* both writeNodeConf write only content that is not blank
ShouldWrite(content) == TrimSpace(content) # ""

(***************************************************************************)
(* The environment of one refresh run                                      *)
(***************************************************************************)

\* the SUB variable
SubEnv == "A=http://a/sub||B = http://b/sub||junk"

airports == parseSubEnv(SubEnv)

Sources == DOMAIN airports

\* the most proxy lines the subscriptions of one run carry together
MaxNodes == 3

\* the proxy lines a provider may serve
ProxyPool ==
    [A |-> << "n1 = ss,1.1.1.1,443,udp-relay=true",
              "n2 = trojan,a.io,443,password=p,tfo=true",
              "n4 = trojan,d.io,443",
              "n6 = ss,7.7.7.7,1,tfo=false",
              "n7 = foo,2.2.2.2,1" >>,
     B |-> << "n1 = ss,1.1.1.1,443,udp-relay=true",
              "n3 = trojan,b.io,443,sni=s.io,password=truepw",
              "n5 = vmess,h,80",
              "n8 = ss,8.8.8.8,53",
              "n9 = ss,c.io,443" >>]

\* the lines of pool at the positions in S, in pool order
RECURSIVE PickFrom(_, _, _)
PickFrom(pool, S, i) ==
    IF i > Len(pool) THEN <<>>
    ELSE (IF i \in S THEN <<pool[i]>> ELSE <<>>) \o PickFrom(pool, S, i + 1)

\* a subscription document around the chosen proxy lines
Document(lines) ==
    << "[General]", "skip = ss,4.4.4.4,1", " [Proxy] ", "# note", "D = direct" >>
        \o lines \o << "[Rule]", "late = ss,4.4.4.4,2" >>

\* the Answer records of the DoH reply for a name; none on a network or
\* decode error
DohAnswer(domain) ==
    CASE domain = "a.io" -> << [type |-> 1, data |-> "5.5.5.5"], [type |-> 1, data |-> "6.6.6.6"],
                               [type |-> 1, data |-> "7.7.7.7"] >>
      [] domain = "b.io" -> << [type |-> 5, data |-> "a.io"], [type |-> 1, data |-> "5.5.5.5"] >>
      [] domain = "d.io" -> << [type |-> 1, data |-> "5.5.5.5"] >>
      [] domain = "h"    -> << [type |-> 1, data |-> "6.6.6.6"], [type |-> 1, data |-> "6.6.6.6"] >>
      [] OTHER           -> << >>

\* what the two trace endpoints answer through a proxy at this server
TraceOf(server) ==
    CASE server = "1.1.1.1" -> << TraceBody("fl=1\nloc=US\ntls=x") >>
      [] server = "5.5.5.5" -> << TraceErr, TraceBody("loc=TW\n") >>
      [] server = "6.6.6.6" -> << TraceBody("fl=2\ntls=x"), TraceBody("loc=TW") >>
      [] server = "8.8.8.8" -> << TraceBody("loc=") >>
      [] server = "9.9.9.9" -> << TraceBody("fl=3\nloc=USA\ntls=x") >>
      [] OTHER              -> << TraceErr, TraceErr >>

\* the node types adapter.ParseProxy of the proxy library accepts
ProxyTypes == {"ss", "trojan", "vmess"}

\* a manifest left by an earlier run
OldManifest == "A US^U^S-01 = ss,3.3.3.3,443, "

\* no file at the manifest path
NoFile == [exists |-> FALSE, data |-> ""]

\* a file with this content at the manifest path
FileOf(data) == [exists |-> TRUE, data |-> data]

(***************************************************************************)
(* ingress.go: resolution                                                  *)
(***************************************************************************)

\* a filter that lets the answers of every record type through
KeepAnyAnswer(ans) == TRUE

\* the filter of resolveA1_1_1_1: the data of the answers of type 1
KeepAnswer(ans) == ans.type = 1

RECURSIVE AnswerData(_)
AnswerData(answers) ==
    IF Len(answers) = 0 THEN <<>>
    ELSE (IF KeepAnswer(answers[1]) THEN <<answers[1].data>> ELSE <<>>)
             \o AnswerData(Tail(answers))

resolveA1_1_1_1(domain) == AnswerData(DohAnswer(domain))

(***************************************************************************)
(* One refresh run: updateNodes                                            *)
(***************************************************************************)

VARIABLES
    pc,          \* the stage updateNodes is in
    subs,        \* environment: the document each provider serves
    fetchTry,    \* fetchProxies: the failed attempts of each source so far
    rawProxies,  \* fetchAllProxies: result, source -> lines
    nodes,       \* ctx.Nodes
    heap,        \* the Params maps, by the reference a node holds
    stats,       \* ctx.AirportStats
    parsed,      \* history: ctx.Nodes as handed to ingress
    ipNodes,     \* ingress: ipNodes
    domainNodes, \* ingress: domainNodes
    dnsPending,  \* concurrentDNSQuery: positions in domainNodes not yet resolved
    dnsResults,  \* concurrentDNSQuery: results
    newNodes,    \* ingress: newNodes
    uniqueSet,   \* ingress: uniqueSet
    fidx,        \* ingress: position of the third loop in dnsResults
    ingressOut,  \* history: ctx.Nodes as ingress left it
    worker,      \* egress: the goroutine of each node
    nodeConf,    \* the file /data/conflux/node.conf
    preConf,     \* history: node.conf when the run began
    written,     \* history: this run called os.WriteFile
    published,   \* history: the nodes in the order of the lines written
    rendered,    \* history: the content writeNodeConf built
    manifest,    \* server: the content of node.conf a request is served from
    query,       \* server: the query of the request, as (key, value) pairs
    served,      \* server: the lines processNodes returned
    first,       \* history: the lines the first pass returned
    passes,      \* server: how many times processNodes has been applied
    method,      \* service: the method of the last request
    resp,        \* service: what handleConflux sent for it
    runs,        \* service: the refresh runs started, each up to its write
    lastWrite,   \* history: the content of the last os.WriteFile that returned
    event,       \* history: the kind of the last step of the service
    age,         \* service: the six-hour sleeps since node.conf was modified
    chk,         \* service: where the loop of startNodeConfChecker is
    conc,        \* concurrentDNSQuery: the parameter concurrency
    flight,      \* concurrentDNSQuery: the positions a worker is resolving
    probes,      \* history: how often detectNodeGeo has run for each node
    day,         \* the clock, in days; day 0 is a Monday
    monday,      \* main: the variable monday the rotator compares with
    rot,         \* where main and the goroutine of startLogRotator are
    logOnce,     \* main.go: logOnce has run its function
    files,       \* the files os.OpenFile returned, each with its path and whether it is open
    logFile,     \* main.go: logFile, a position in files, 0 for nil
    logOut,      \* the file the writer set by log.SetOutput writes to, 0 for none
    lastLog,     \* history: where the last message of logf went
    switches     \* history: the rotations the rotator has completed

\* the state of a refresh run
runVars == << pc, subs, fetchTry, rawProxies, nodes, heap, stats, parsed, ipNodes,
              domainNodes, dnsPending, dnsResults, newNodes, uniqueSet, fidx,
              ingressOut, worker, nodeConf, preConf, written, published, rendered,
              conc, flight, probes >>

\* what a step of the service leaves alone: a refresh run but for the file
\* it writes, and the log
stageVars == << pc, subs, fetchTry, rawProxies, nodes, heap, stats, parsed, ipNodes,
                domainNodes, dnsPending, dnsResults, newNodes, uniqueSet, fidx,
                ingressOut, worker, preConf, written, published, rendered,
                conc, flight, probes,
                day, monday, rot, logOnce, files, logFile, logOut, lastLog, switches >>

\* the state of the rewriting of a request
serveOnly == << manifest, query, served, first, passes >>

\* the state of the service around the runs, the log included
svcVars == << method, resp, runs, lastWrite, event, age, chk,
             day, monday, rot, logOnce, files, logFile, logOut, lastLog, switches >>

\* the state of a request
serveVars == << serveOnly, svcVars >>

vars == << runVars, serveVars >>

\* no request has been handled, the checker sleeps, and the log is as the
\* process finds it at its start
NoService ==
    /\ method = ""
    /\ resp = [status |-> 0, body |-> "", read |-> FALSE]
    /\ runs = <<>>
    /\ lastWrite = ""
    /\ event = ""
    /\ age = 0
    /\ chk = "sleep"
    /\ day = 0
    /\ monday = 0
    /\ rot = "boot"
    /\ logOnce = FALSE
    /\ files = <<>>
    /\ logFile = 0
    /\ logOut = 0
    /\ lastLog = ""
    /\ switches = 0

\* no refresh run of the pipeline is under way, and the log is as the
\* process finds it at its start
Idle ==
    /\ pc = "idle"
    /\ subs = EmptyMap
    /\ fetchTry = EmptyMap
    /\ rawProxies = EmptyMap
    /\ nodes = <<>>
    /\ heap = <<>>
    /\ stats = EmptyMap
    /\ parsed = <<>>
    /\ ipNodes = <<>>
    /\ domainNodes = <<>>
    /\ dnsPending = {}
    /\ dnsResults = <<>>
    /\ newNodes = <<>>
    /\ uniqueSet = {}
    /\ fidx = 1
    /\ ingressOut = <<>>
    /\ worker = <<>>
    /\ preConf = NoFile
    /\ written = FALSE
    /\ published = <<>>
    /\ rendered = ""
    /\ conc = 0
    /\ flight = {}
    /\ probes = <<>>
    /\ day = 0
    /\ monday = 0
    /\ rot = "boot"
    /\ logOnce = FALSE
    /\ files = <<>>
    /\ logFile = 0
    /\ logOut = 0
    /\ lastLog = ""
    /\ switches = 0

\* the selections of pool lines, one set of positions per source, that stay
\* within MaxNodes
RECURSIVE Chosen(_, _)
Chosen(sel, S) ==
    IF S = {} THEN 0
    ELSE LET s == CHOOSE x \in S : TRUE
         IN  Cardinality(sel[s]) + Chosen(sel, S \ {s})

Selections ==
    {sel \in [Sources -> SUBSET (UNION {1..Len(ProxyPool[s]) : s \in Sources})] :
        /\ \A s \in Sources : sel[s] \subseteq 1..Len(ProxyPool[s])
        /\ Chosen(sel, Sources) <= MaxNodes}

Init ==
    /\ pc = "fetch"
    /\ \E sel \in Selections :
           subs = [s \in Sources |-> Document(PickFrom(ProxyPool[s], sel[s], 1))]
    /\ fetchTry = [s \in Sources |-> 0]
    /\ rawProxies = EmptyMap
    /\ nodes = <<>>
    /\ heap = <<>>
    /\ stats = EmptyMap
    /\ parsed = <<>>
    /\ ipNodes = <<>>
    /\ domainNodes = <<>>
    /\ dnsPending = {}
    /\ dnsResults = <<>>
    /\ newNodes = <<>>
    /\ uniqueSet = {}
    /\ fidx = 1
    /\ ingressOut = <<>>
    /\ worker = <<>>
    /\ nodeConf = FileOf(OldManifest)
    /\ preConf = nodeConf
    /\ written = FALSE
    /\ published = <<>>
    /\ rendered = ""
    /\ manifest = ""
    /\ query = <<>>
    /\ served = <<>>
    /\ first = <<>>
    /\ passes = 0
    /\ conc = 0
    /\ flight = {}
    /\ probes = <<>>
    /\ NoService

(***************************************************************************)
(* Stage 1: fetchAllProxies, one goroutine per source                      *)
(***************************************************************************)

\* the attempts fetchProxies makes
FetchAttempts == 2

\* how one GET ends
FetchOutcomes == {"ok", "neterr", "non200"}

\* a loop of fetchProxies that makes a third attempt after two failures
FetchAttemptThrice(s, outcome) ==
    /\ pc = "fetch"
    /\ s \notin DOMAIN rawProxies
    /\ fetchTry[s] < FetchAttempts + 1
    /\ IF outcome = "ok"
       THEN /\ rawProxies' = MapPut(rawProxies, s, subs[s])
            /\ fetchTry' = [fetchTry EXCEPT ![s] = 0]
       ELSE IF fetchTry[s] = FetchAttempts
       THEN /\ rawProxies' = MapPut(rawProxies, s, <<>>)
            /\ fetchTry' = [fetchTry EXCEPT ![s] = 0]
       ELSE /\ fetchTry' = [fetchTry EXCEPT ![s] = @ + 1]
            /\ UNCHANGED rawProxies
    /\ UNCHANGED << pc, subs, nodes, heap, stats, parsed, ipNodes, domainNodes,
                    dnsPending, dnsResults, newNodes, uniqueSet, fidx, ingressOut,
                    worker, nodeConf, preConf, written, published, rendered,
                    conc, flight, probes, serveVars >>

\* one pass of the loop of fetchProxies for source s, and, when it ends the
\* function, the store of its result under the mutex (the loop counter is
\* a local of fetchProxies and is gone with the return)
FetchAttempt(s, outcome) ==
    /\ pc = "fetch"
    /\ s \notin DOMAIN rawProxies
    /\ fetchTry[s] < FetchAttempts
    /\ IF outcome = "ok"
       THEN /\ rawProxies' = MapPut(rawProxies, s, subs[s])
            /\ fetchTry' = [fetchTry EXCEPT ![s] = 0]
       ELSE IF fetchTry[s] + 1 = FetchAttempts
       THEN /\ rawProxies' = MapPut(rawProxies, s, <<>>)
            /\ fetchTry' = [fetchTry EXCEPT ![s] = 0]
       ELSE /\ fetchTry' = [fetchTry EXCEPT ![s] = @ + 1]
            /\ UNCHANGED rawProxies
    /\ UNCHANGED << pc, subs, nodes, heap, stats, parsed, ipNodes, domainNodes,
                    dnsPending, dnsResults, newNodes, uniqueSet, fidx, ingressOut,
                    worker, nodeConf, preConf, written, published, rendered,
                    conc, flight, probes, serveVars >>

(***************************************************************************)
(* Stage 2: parseAllNodes, and the new UpdateContext                       *)
(***************************************************************************)

\* the accepted parses of the proxy lines of one source
ParsedOf(lines, airport) ==
    LET xs == extractProxyLines(lines)
    IN  SelectSeq([i \in 1..Len(xs) |-> parseNodeLine(xs[i], airport)], LAMBDA r : r.ok)

RECURSIVE ParsedInOrder(_, _)
ParsedInOrder(raw, order) ==
    IF Len(order) = 0 THEN <<>>
    ELSE ParsedOf(raw[order[1]], order[1]) \o ParsedInOrder(raw, Tail(order))

\* wg.Wait of fetchAllProxies, then parseAllNodes over the sources in the
\* order the map iteration yields them; every node gets a map of its own
ParseAllNodes ==
    /\ pc = "fetch"
    /\ DOMAIN rawProxies = Sources
    /\ \E order \in Orders(Sources) :
           LET all == ParsedInOrder(rawProxies, order)
           IN  /\ heap' = [i \in 1..Len(all) |-> all[i].params]
               /\ nodes' = [i \in 1..Len(all) |-> [all[i].node EXCEPT !.Params = i]]
    /\ parsed' = nodes'
    /\ stats' = EmptyMap
    /\ pc' = "ingress"
    /\ UNCHANGED << subs, fetchTry, rawProxies, ipNodes, domainNodes, dnsPending,
                    dnsResults, newNodes, uniqueSet, fidx, ingressOut, worker,
                    nodeConf, preConf, written, published, rendered,
                    conc, flight, probes, serveVars >>

(***************************************************************************)
(* Stage 3: ingress                                                        *)
(***************************************************************************)

NewStat == [Total |-> 0, Duplicated |-> 0, Failed |-> 0]

\* a first loop that counts a source once, however many nodes it has
CountSources(list, st) ==
    [s \in {list[i].Source : i \in 1..Len(list)} |-> [NewStat EXCEPT !.Total = 1]]

\* the first loop of ingress: a Stat for every source met, Total counted
RECURSIVE CountTotals(_, _)
CountTotals(list, st) ==
    IF Len(list) = 0 THEN st
    ELSE LET src == list[1].Source
             cur == IF src \in DOMAIN st THEN st[src] ELSE NewStat
         IN  CountTotals(Tail(list), MapPut(st, src, [cur EXCEPT !.Total = @ + 1]))

\* the workers ingress asks concurrentDNSQuery for
DnsWorkers == 10

\* the first loop of ingress, up to the call of concurrentDNSQuery
IngressClassify ==
    /\ pc = "ingress"
    /\ stats' = CountTotals(nodes, stats)
    /\ ipNodes' = SelectSeq(nodes, LAMBDA n : isIP(n.Server))
    /\ domainNodes' = SelectSeq(nodes, LAMBDA n : ~isIP(n.Server))
    /\ dnsPending' = {i \in 1..Len(nodes) : i <= Len(domainNodes')}
    /\ dnsResults' = <<>>
    /\ conc' = DnsWorkers
    /\ pc' = "dns"
    /\ UNCHANGED << subs, fetchTry, rawProxies, nodes, heap, parsed, newNodes,
                    uniqueSet, fidx, ingressOut, worker, nodeConf, preConf,
                    written, published, rendered,
                    flight, probes, serveVars >>

\* a worker of concurrentDNSQuery resolves the i-th domain node and hands the
\* result to the collector: the results arrive in the order the queries end
DnsQuery(i) ==
    /\ pc = "dns"
    /\ i \in dnsPending
    /\ i <= (Len(domainNodes) - Cardinality(dnsPending)) + conc
    /\ dnsPending' = dnsPending \ {i}
    /\ dnsResults' = Append(dnsResults,
                            [node |-> domainNodes[i],
                             ips  |-> resolveA1_1_1_1(domainNodes[i].Server)])
    /\ UNCHANGED << pc, subs, fetchTry, rawProxies, nodes, heap, stats, parsed,
                    ipNodes, domainNodes, newNodes, uniqueSet, fidx, ingressOut,
                    worker, nodeConf, preConf, written, published, rendered,
                    conc, flight, probes, serveVars >>

\* a lookup that finds no key
NeverSeen(set, key) == FALSE

\* whether a key is in uniqueSet
Seen(set, key) == key \in set

\* the second loop of ingress: acc holds uniqueSet, newNodes and the stats
RECURSIVE IPLoop(_, _)
IPLoop(list, acc) ==
    IF Len(list) = 0 THEN acc
    ELSE LET node == list[1]
             key  == uniqueKey(node)
         IN  IPLoop(Tail(list),
                 IF ~Seen(acc.set, key)
                 THEN [acc EXCEPT !.set = @ \cup {key}, !.out = Append(@, node)]
                 ELSE [acc EXCEPT !.stats[node.Source].Duplicated = @ + 1])

\* concurrentDNSQuery has returned; the loop over the IP nodes
IngressIPNodes ==
    /\ pc = "dns"
    /\ dnsPending = {}
    /\ LET acc == IPLoop(ipNodes, [set |-> uniqueSet, out |-> newNodes, stats |-> stats])
       IN  /\ uniqueSet' = acc.set
           /\ newNodes' = acc.out
           /\ stats' = acc.stats
    /\ fidx' = 1
    /\ pc' = "fission"
    /\ UNCHANGED << subs, fetchTry, rawProxies, nodes, heap, parsed, ipNodes,
                    domainNodes, dnsPending, dnsResults, ingressOut, worker,
                    nodeConf, preConf, written, published, rendered,
                    conc, flight, probes, serveVars >>

\* a condition without the test for an sni already set
BackfillAnySNI(n, m, originalServer) == needSNI(n.Type) /\ isDomain(originalServer)

\* the condition under which the fission loop stores the domain as sni
BackfillSNI(n, m, originalServer) ==
    needSNI(n.Type) /\ MapGet(m, "sni") = "" /\ isDomain(originalServer)

\* a clone that keeps the server of the node
CloneKeepServer(node, ip) == node

\* the clone of node for one resolved address
Clone(node, ip) == [node EXCEPT !.Server = ip]

\* the loop over the addresses of one result: acc holds uniqueSet, newNodes,
\* the flag added and the map node.Params points to
RECURSIVE FissionLoop(_, _, _)
FissionLoop(node, ips, acc) ==
    IF Len(ips) = 0 THEN acc
    ELSE LET n   == Clone(node, ips[1])
             m   == IF BackfillSNI(n, acc.map, node.Server)
                    THEN MapPut(acc.map, "sni", node.Server)
                    ELSE acc.map
             key == uniqueKey(n)
         IN  FissionLoop(node, Tail(ips),
                 IF ~Seen(acc.set, key)
                 THEN [set |-> acc.set \cup {key}, out |-> Append(acc.out, n),
                       added |-> TRUE, map |-> m]
                 ELSE [acc EXCEPT !.map = m])

\* a test that never finds every clone a duplicate
NoneAddedNever(added) == FALSE

\* the test after the loop over the addresses: every clone was a duplicate
NoneAdded(added) == ~added

\* one pass of the third loop of ingress, for the result at fidx
IngressFission ==
    /\ pc = "fission"
    /\ fidx <= Len(dnsResults)
    /\ LET node == dnsResults[fidx].node
           ips  == dnsResults[fidx].ips
       IN  IF Len(ips) = 0
           THEN /\ stats' = [stats EXCEPT ![node.Source].Failed = @ + 1]
                /\ UNCHANGED << newNodes, uniqueSet, heap >>
           ELSE LET acc == FissionLoop(node, ips,
                               [set |-> uniqueSet, out |-> newNodes,
                                added |-> FALSE, map |-> heap[node.Params]])
                IN  /\ uniqueSet' = acc.set
                    /\ newNodes' = acc.out
                    /\ heap' = [heap EXCEPT ![node.Params] = acc.map]
                    /\ stats' = IF NoneAdded(acc.added)
                                THEN [stats EXCEPT ![node.Source].Duplicated = @ + 1]
                                ELSE stats
    /\ fidx' = fidx + 1
    /\ UNCHANGED << pc, subs, fetchTry, rawProxies, nodes, parsed, ipNodes,
                    domainNodes, dnsPending, dnsResults, ingressOut, worker,
                    nodeConf, preConf, written, published, rendered,
                    conc, flight, probes, serveVars >>

\* the end of ingress (ctx.Nodes = newNodes) and the start of egress: one
\* goroutine per node
IngressFinish ==
    /\ pc = "fission"
    /\ fidx > Len(dnsResults)
    /\ nodes' = newNodes
    /\ ingressOut' = newNodes
    /\ worker' = [i \in 1..Len(newNodes) |-> [st |-> "idle", val |-> 0]]
    /\ pc' = "egress"
    /\ UNCHANGED << subs, fetchTry, rawProxies, heap, stats, parsed, ipNodes,
                    domainNodes, dnsPending, dnsResults, newNodes, uniqueSet, fidx,
                    nodeConf, preConf, written, published, rendered,
                    conc, flight, probes, serveVars >>

(***************************************************************************)
(* Stage 4: egress                                                         *)
(***************************************************************************)

\* the capacity of the semaphore of egress
ProbeCap == 10

\* the goroutines that hold the semaphore
Probing == {i \in 1..Len(worker) : worker[i].st \in {"probing", "rd"}}

\* createProxyClient: nil when adapter.ParseProxy rejects the node
createProxyClient(n) == n.Type \in ProxyTypes

\* what detectNodeGeo finds for a node: failed (no client, or no ISO), or
\* the ISO the trace gave
Detect(n) ==
    IF ~createProxyClient(n) THEN [failed |-> TRUE, iso |-> ""]
    ELSE LET r == getProxyISO(TraceOf(n.Server))
         IN  [failed |-> r.err, iso |-> r.iso]

\* detectNodeGeo for node i up to its first write: the node's ISO and Emoji
\* on success (then the goroutine is done), or the read of stat.Failed in
\* updateFailedCount; getEmojiByISO panics on an ISO shorter than two bytes
\* and the panic ends the process
detectNodeGeo(i) ==
    /\ probes' = MapPut(probes, i, (IF i \in DOMAIN probes THEN probes[i] ELSE 0) + 1)
    /\ LET d == Detect(nodes[i])
       IN  IF d.failed
           THEN /\ worker' = [worker EXCEPT ![i] =
                                 [st  |-> "rd",
                                  val |-> IF nodes[i].Source \in DOMAIN stats
                                          THEN stats[nodes[i].Source].Failed ELSE 0]]
                /\ UNCHANGED << pc, nodes >>
           ELSE IF getEmojiPanics(d.iso)
           THEN /\ pc' = "crashed"
                /\ UNCHANGED << worker, nodes >>
           ELSE /\ nodes' = [nodes EXCEPT ![i].ISO = d.iso,
                                          ![i].Emoji = getEmojiByISO(d.iso)]
                /\ worker' = [worker EXCEPT ![i].st = "done"]
                /\ UNCHANGED pc
    /\ UNCHANGED << subs, fetchTry, rawProxies, heap, stats, parsed, ipNodes,
                    domainNodes, dnsPending, dnsResults, newNodes, uniqueSet, fidx,
                    ingressOut, nodeConf, preConf, written, published, rendered,
                    conc, flight, serveVars >>

\* the goroutine of node i takes the semaphore and runs detectNodeGeo
Probe(i) ==
    /\ pc = "egress"
    /\ worker[i].st = "idle"
    /\ Cardinality(Probing) < ProbeCap
    /\ detectNodeGeo(i)

\* the write of stat.Failed++ in updateFailedCount, with no lock between
\* the read and the write; the goroutine then releases the semaphore
FailWrite(i) ==
    /\ pc = "egress"
    /\ worker[i].st = "rd"
    /\ stats' = IF nodes[i].Source \in DOMAIN stats
                THEN [stats EXCEPT ![nodes[i].Source].Failed = worker[i].val + 1]
                ELSE stats
    /\ worker' = [worker EXCEPT ![i].st = "done"]
    /\ UNCHANGED << pc, subs, fetchTry, rawProxies, nodes, heap, parsed, ipNodes,
                    domainNodes, dnsPending, dnsResults, newNodes, uniqueSet, fidx,
                    ingressOut, nodeConf, preConf, written, published, rendered,
                    conc, flight, probes, serveVars >>

\* the filter of egress
Probed(n) == n.ISO # "" /\ n.Emoji # ""

\* a filter that does not wait for the goroutines
EgressFilterNoWait ==
    /\ pc = "egress"
    /\ nodes' = SelectSeq(nodes, Probed)
    /\ stats' = [a \in DOMAIN stats |->
                    [stats[a] EXCEPT !.Total =
                        Len(SelectSeq(nodes', LAMBDA n : n.Source = a))]]
    /\ pc' = "publish"
    /\ UNCHANGED << subs, fetchTry, rawProxies, heap, parsed, ipNodes, domainNodes,
                    dnsPending, dnsResults, newNodes, uniqueSet, fidx, ingressOut,
                    worker, nodeConf, preConf, written, published, rendered,
                    conc, flight, probes, serveVars >>

\* a filter that leaves the Total of every source as ingress counted it
EgressFilterStaleTotals ==
    /\ pc = "egress"
    /\ \A i \in 1..Len(worker) : worker[i].st = "done"
    /\ nodes' = SelectSeq(nodes, Probed)
    /\ pc' = "publish"
    /\ UNCHANGED << subs, fetchTry, rawProxies, heap, stats, parsed, ipNodes, domainNodes,
                    dnsPending, dnsResults, newNodes, uniqueSet, fidx, ingressOut,
                    worker, nodeConf, preConf, written, published, rendered,
                    conc, flight, probes, serveVars >>

\* wg.Wait of egress, the filter, and the recomputation of every Total
EgressFilter ==
    /\ pc = "egress"
    /\ \A i \in 1..Len(worker) : worker[i].st = "done"
    /\ nodes' = SelectSeq(nodes, Probed)
    /\ stats' = [a \in DOMAIN stats |->
                    [stats[a] EXCEPT !.Total =
                        Len(SelectSeq(nodes', LAMBDA n : n.Source = a))]]
    /\ pc' = "publish"
    /\ UNCHANGED << subs, fetchTry, rawProxies, heap, parsed, ipNodes, domainNodes,
                    dnsPending, dnsResults, newNodes, uniqueSet, fidx, ingressOut,
                    worker, nodeConf, preConf, written, published, rendered,
                    conc, flight, probes, serveVars >>

(***************************************************************************)
(* Stage 5: the publisher, in its two variants                             *)
(***************************************************************************)

\* the added keys of a node in the order a range over its map yields them,
\* given an order of all keys that any node adds
RECURSIVE Restrict(_, _)
Restrict(order, S) ==
    IF Len(order) = 0 THEN <<>>
    ELSE (IF order[1] \in S THEN <<order[1]>> ELSE <<>>) \o Restrict(Tail(order), S)

AllAddedKeys(list, h) == UNION {AddedKeys(list[i], h[list[i].Params]) : i \in 1..Len(list)}

\* os.WriteFile when the content is not blank
WriteIfAny(content) ==
    /\ rendered' = content
    /\ written' = ShouldWrite(content)
    /\ nodeConf' = IF ShouldWrite(content) THEN FileOf(content) ELSE nodeConf

\* update.go: renameNodes, then writeNodeConf (sort, one line per node with
\* the name stored under _newname, the boolean substitutions per line)
PublishRename ==
    /\ pc = "publish"
    /\ LET h      == renameNodes(nodes, heap)
           sorted == SortNodes(nodes)
       IN  /\ heap' = h
           /\ nodes' = sorted
           /\ published' = sorted
           /\ \E order \in Orders(AllAddedKeys(sorted, h)) :
                  WriteIfAny(Join([i \in 1..Len(sorted) |->
                      RenameLine(sorted[i], h,
                                 Restrict(order, AddedKeys(sorted[i], h[sorted[i].Params])))],
                      "\n"))
    /\ pc' = "done"
    /\ UNCHANGED << subs, fetchTry, rawProxies, stats, parsed, ipNodes, domainNodes,
                    dnsPending, dnsResults, newNodes, uniqueSet, fidx, ingressOut,
                    worker, preConf,
                    conc, flight, probes, serveVars >>

\* the other update.go: writeNodeConf groups by Source|ISO, numbers each
\* group, and substitutes the booleans in the whole document
PublishGroup ==
    /\ pc = "publish"
    /\ LET list == Grouped(nodes)
       IN  /\ published' = list
           /\ \E order \in Orders(AllAddedKeys(list, heap)) :
                  WriteIfAny(Booleans(Join([i \in 1..Len(list) |->
                      GroupLine(list, i, heap,
                                Restrict(order, AddedKeys(list[i], heap[list[i].Params])))],
                      "\n")))
    /\ pc' = "done"
    /\ UNCHANGED << subs, fetchTry, rawProxies, nodes, heap, stats, parsed, ipNodes,
                    domainNodes, dnsPending, dnsResults, newNodes, uniqueSet, fidx,
                    ingressOut, worker, preConf,
                    conc, flight, probes, serveVars >>

Next ==
    \/ \E s \in Sources, outcome \in FetchOutcomes : FetchAttempt(s, outcome)
    \/ ParseAllNodes
    \/ IngressClassify
    \/ \E i \in dnsPending : DnsQuery(i)
    \/ IngressIPNodes
    \/ IngressFission
    \/ IngressFinish
    \/ \E i \in 1..Len(worker) : Probe(i)
    \/ \E i \in 1..Len(worker) : FailWrite(i)
    \/ EgressFilter
    \/ PublishRename
    \/ PublishGroup

Spec == Init /\ [][Next]_vars

(***************************************************************************)
(* The semaphore of egress, on a node list longer than its capacity        *)
(***************************************************************************)

\* egress is called with one node more than the semaphore admits, all of
\* source A and behind 5.5.5.5 but for the first, whose type no adapter knows,
\* and the second, whose trace carries three characters after loc=
InitEgress ==
    /\ pc = "egress"
    /\ subs = EmptyMap
    /\ fetchTry = EmptyMap
    /\ rawProxies = EmptyMap
    /\ nodes = [i \in 1..(ProbeCap + 1) |->
                   [NoNode EXCEPT !.OriginName = "n" \o Itoa(i),
                                  !.Type = IF i = 1 THEN "foo" ELSE "ss",
                                  !.Server = IF i = 2 THEN "9.9.9.9" ELSE "5.5.5.5",
                                  !.Port = Itoa(i),
                                  !.Source = "A",
                                  !.Params = i]]
    /\ heap = [i \in 1..Len(nodes) |-> EmptyMap]
    /\ stats = [s \in {"A"} |-> [NewStat EXCEPT !.Total = Len(nodes)]]
    /\ parsed = nodes
    /\ ipNodes = nodes
    /\ domainNodes = <<>>
    /\ dnsPending = {}
    /\ dnsResults = <<>>
    /\ newNodes = nodes
    /\ uniqueSet = {uniqueKey(nodes[i]) : i \in 1..Len(nodes)}
    /\ fidx = 1
    /\ ingressOut = nodes
    /\ worker = [i \in 1..Len(nodes) |-> [st |-> "idle", val |-> 0]]
    /\ nodeConf = FileOf(OldManifest)
    /\ preConf = nodeConf
    /\ written = FALSE
    /\ published = <<>>
    /\ rendered = ""
    /\ conc = 0
    /\ flight = {}
    /\ probes = <<>>
    /\ manifest = ""
    /\ query = <<>>
    /\ served = <<>>
    /\ first = <<>>
    /\ passes = 0
    /\ NoService

\* a goroutine that sends to the semaphore whatever it holds
AcquireAny(i) ==
    /\ pc = "egress"
    /\ worker[i].st = "idle"
    /\ worker' = [worker EXCEPT ![i].st = "probing"]
    /\ UNCHANGED << pc, subs, fetchTry, rawProxies, nodes, heap, stats, parsed,
                    ipNodes, domainNodes, dnsPending, dnsResults, newNodes,
                    uniqueSet, fidx, ingressOut, nodeConf, preConf, written,
                    published, rendered, conc, flight, probes, serveVars >>

\* the goroutine of node i sends to the semaphore: the send blocks while the
\* channel holds ProbeCap elements
Acquire(i) ==
    /\ pc = "egress"
    /\ worker[i].st = "idle"
    /\ Cardinality(Probing) < ProbeCap
    /\ worker' = [worker EXCEPT ![i].st = "probing"]
    /\ UNCHANGED << pc, subs, fetchTry, rawProxies, nodes, heap, stats, parsed,
                    ipNodes, domainNodes, dnsPending, dnsResults, newNodes,
                    uniqueSet, fidx, ingressOut, nodeConf, preConf, written,
                    published, rendered, conc, flight, probes, serveVars >>

\* the goroutine of node i, holding the semaphore, runs detectNodeGeo
Detected(i) ==
    /\ pc = "egress"
    /\ worker[i].st = "probing"
    /\ detectNodeGeo(i)

NextEgress ==
    \/ \E i \in 1..Len(worker) : Acquire(i)
    \/ \E i \in 1..Len(worker) : Detected(i)
    \/ \E i \in 1..Len(worker) : FailWrite(i)
    \/ EgressFilter

SpecEgress == InitEgress /\ [][NextEgress]_vars

(***************************************************************************)
(* The worker pool of concurrentDNSQuery                                   *)
(***************************************************************************)

\* the largest pool tried besides the one ingress asks for
MaxConc == 3

\* concurrentDNSQuery is called with up to MaxNodes domain nodes of source A,
\* several of which may name one domain, and a number of workers
InitDns ==
    /\ pc = "dns"
    /\ subs = EmptyMap
    /\ fetchTry = EmptyMap
    /\ rawProxies = EmptyMap
    /\ \E n \in 0..MaxNodes :
           \E server \in [1..n -> {"a.io", "b.io", "c.io"}] :
           nodes = [i \in 1..n |->
                       [NoNode EXCEPT !.OriginName = "n" \o Itoa(i),
                                      !.Type = "trojan",
                                      !.Server = server[i],
                                      !.Port = Itoa(i),
                                      !.Source = "A",
                                      !.Params = i]]
    /\ heap = [i \in 1..Len(nodes) |-> EmptyMap]
    /\ stats = CountTotals(nodes, EmptyMap)
    /\ parsed = nodes
    /\ ipNodes = <<>>
    /\ domainNodes = nodes
    /\ dnsPending = 1..Len(nodes)
    /\ dnsResults = <<>>
    /\ newNodes = <<>>
    /\ uniqueSet = {}
    /\ fidx = 1
    /\ ingressOut = <<>>
    /\ worker = <<>>
    /\ nodeConf = FileOf(OldManifest)
    /\ preConf = nodeConf
    /\ written = FALSE
    /\ published = <<>>
    /\ rendered = ""
    /\ conc \in (1..MaxConc) \cup {DnsWorkers}
    /\ flight = {}
    /\ probes = <<>>
    /\ manifest = ""
    /\ query = <<>>
    /\ served = <<>>
    /\ first = <<>>
    /\ passes = 0
    /\ NoService

\* a goroutine per task: the next task of taskChan is taken whatever the
\* number of queries under way
DnsStartAny ==
    /\ pc = "dns"
    /\ dnsPending \ flight # {}
    /\ flight' = flight \cup {CHOOSE i \in dnsPending \ flight :
                                 \A j \in dnsPending \ flight : i <= j}
    /\ UNCHANGED << pc, subs, fetchTry, rawProxies, nodes, heap, stats, parsed,
                    ipNodes, domainNodes, dnsPending, dnsResults, newNodes,
                    uniqueSet, fidx, ingressOut, worker, nodeConf, preConf,
                    written, published, rendered, conc, probes, serveVars >>

\* a worker that is not resolving receives the next task of taskChan, which
\* hands the tasks out in the order they were sent
DnsStart ==
    /\ pc = "dns"
    /\ Cardinality(flight) < conc
    /\ dnsPending \ flight # {}
    /\ flight' = flight \cup {CHOOSE i \in dnsPending \ flight :
                                 \A j \in dnsPending \ flight : i <= j}
    /\ UNCHANGED << pc, subs, fetchTry, rawProxies, nodes, heap, stats, parsed,
                    ipNodes, domainNodes, dnsPending, dnsResults, newNodes,
                    uniqueSet, fidx, ingressOut, worker, nodeConf, preConf,
                    written, published, rendered, conc, probes, serveVars >>

\* a worker that sends a result only when the query gave an address
DnsFinishNonEmpty(i) ==
    /\ pc = "dns"
    /\ i \in flight
    /\ flight' = flight \ {i}
    /\ dnsPending' = dnsPending \ {i}
    /\ dnsResults' = IF Len(resolveA1_1_1_1(domainNodes[i].Server)) = 0
                      THEN dnsResults
                      ELSE Append(dnsResults,
                                  [node |-> domainNodes[i],
                                   ips  |-> resolveA1_1_1_1(domainNodes[i].Server)])
    /\ UNCHANGED << pc, subs, fetchTry, rawProxies, nodes, heap, stats, parsed,
                    ipNodes, domainNodes, newNodes, uniqueSet, fidx, ingressOut,
                    worker, nodeConf, preConf, written, published, rendered,
                    conc, probes, serveVars >>

\* the query for the i-th domain node ends and its worker sends the result,
\* which the collector appends
DnsFinish(i) ==
    /\ pc = "dns"
    /\ i \in flight
    /\ flight' = flight \ {i}
    /\ dnsPending' = dnsPending \ {i}
    /\ dnsResults' = Append(dnsResults,
                            [node |-> domainNodes[i],
                             ips  |-> resolveA1_1_1_1(domainNodes[i].Server)])
    /\ UNCHANGED << pc, subs, fetchTry, rawProxies, nodes, heap, stats, parsed,
                    ipNodes, domainNodes, newNodes, uniqueSet, fidx, ingressOut,
                    worker, nodeConf, preConf, written, published, rendered,
                    conc, probes, serveVars >>

NextDns ==
    \/ DnsStart
    \/ \E i \in flight : DnsFinish(i)
    \/ IngressIPNodes

SpecDns == InitDns /\ [][NextDns]_vars

\* every query ends (the client of resolveA1_1_1_1 has a timeout of three
\* seconds), no send blocks (both channels have room for every node), and
\* the scheduler runs a goroutine that can go on
SpecDnsLive == SpecDns /\ WF_vars(NextDns)

(***************************************************************************)
(* The parser on arbitrary documents                                       *)
(***************************************************************************)

\* the longest document tried
MaxLines == 3

\* fetchAllProxies has returned a document of up to MaxLines lines for
\* source A and an empty one for source B
InitParse ==
    /\ pc = "fetch"
    /\ \E n \in 1..MaxLines :
           \E doc \in [1..n -> {"[Proxy]", "", "[Rule]", "# c", "r = reject",
                                "n1 = ss,1.1.1.1,443,a=1", "n2 = ,,",
                                "n3 = ss,3.3.3.3", " = ss,2.2.2.2,1"}] :
               subs = [s \in Sources |-> IF s = "A" THEN doc ELSE <<>>]
    /\ fetchTry = [s \in Sources |-> 0]
    /\ rawProxies = subs
    /\ nodes = <<>>
    /\ heap = <<>>
    /\ stats = EmptyMap
    /\ parsed = <<>>
    /\ ipNodes = <<>>
    /\ domainNodes = <<>>
    /\ dnsPending = {}
    /\ dnsResults = <<>>
    /\ newNodes = <<>>
    /\ uniqueSet = {}
    /\ fidx = 1
    /\ ingressOut = <<>>
    /\ worker = <<>>
    /\ nodeConf = FileOf(OldManifest)
    /\ preConf = nodeConf
    /\ written = FALSE
    /\ published = <<>>
    /\ rendered = ""
    /\ conc = 0
    /\ flight = {}
    /\ probes = <<>>
    /\ manifest = ""
    /\ query = <<>>
    /\ served = <<>>
    /\ first = <<>>
    /\ passes = 0
    /\ NoService

SpecParse == InitParse /\ [][ParseAllNodes]_vars

(***************************************************************************)
(* server.go: the override rewriting of a served manifest                  *)
(***************************************************************************)

\* paramMap of processNodes: URL parameter -> node attribute
paramMap == [udp |-> "udp-relay", quic |-> "block-quic", tfo |-> "tfo"]

\* loadNodeConf: the lines of the file
loadNodeConf(data) == Split(data, "\n")

\* a replaceAttr that takes the value to reach to the end of the line
replaceAttrToEnd(line, attr, val) ==
    LET prefix == attr \o "="
        idx    == Index(line, prefix)
    IN  IF idx = 0 THEN line
        ELSE SubSeq(line, 1, idx + Len(prefix) - 1) \o val

\* replaceAttr: the value after the first "attr=" is replaced up to the
\* next comma or the end of the line
replaceAttr(line, attr, val) ==
    LET prefix == attr \o "="
        idx    == Index(line, prefix)
    IN  IF idx = 0 THEN line
        ELSE LET start == idx + Len(prefix)
                 end   == Index(From(line, start), ",")
             IN  IF end = 0 THEN SubSeq(line, 1, start - 1) \o val
                 ELSE SubSeq(line, 1, start - 1) \o val \o From(line, start + end - 1)

\* r.URL.Query(): the values of each key, in the order of the query string
RECURSIVE Values(_)
Values(q) ==
    IF Len(q) = 0 THEN EmptyMap
    ELSE LET rest == Values(SubSeq(q, 1, Len(q) - 1))
             k    == q[Len(q)][1]
         IN  MapPut(rest, k, (IF k \in DOMAIN rest THEN rest[k] ELSE <<>>) \o <<q[Len(q)][2]>>)

\* "for _, val := range v" of the first loop of processNodes
RECURSIVE ReplaceEach(_, _, _)
ReplaceEach(line, attr, vals) ==
    IF Len(vals) = 0 THEN line
    ELSE ReplaceEach(replaceAttr(line, attr, vals[1]), attr, Tail(vals))

\* the first loop of processNodes over the keys in the order the map
\* iteration yields them
RECURSIVE OverrideLoop(_, _, _)
OverrideLoop(line, params, order) ==
    IF Len(order) = 0 THEN line
    ELSE OverrideLoop(IF order[1] \in DOMAIN paramMap
                      THEN ReplaceEach(line, paramMap[order[1]], params[order[1]])
                      ELSE line,
                      params, Tail(order))

\* "for _, val := range v" of the second loop of processNodes
RECURSIVE AppendEach(_, _, _)
AppendEach(line, attr, vals) ==
    IF Len(vals) = 0 THEN line
    ELSE AppendEach(IF ~Contains(line, attr \o "=")
                    THEN line \o "," \o attr \o "=" \o vals[1]
                    ELSE line,
                    attr, Tail(vals))

\* the second loop of processNodes
RECURSIVE AppendLoop(_, _, _)
AppendLoop(line, params, order) ==
    IF Len(order) = 0 THEN line
    ELSE AppendLoop(IF order[1] \in DOMAIN paramMap
                    THEN AppendEach(line, paramMap[order[1]], params[order[1]])
                    ELSE line,
                    params, Tail(order))

\* what processNodes can make of one trimmed line: each of its two loops
\* ranges over the map in an order of its own
LineResults(line, params) ==
    {AppendLoop(replaced, params, o2) :
        replaced \in {OverrideLoop(line, params, o1) : o1 \in Orders(DOMAIN params)},
        o2 \in Orders(DOMAIN params)}

\* processNodes: the lists it can return
RECURSIVE processNodes(_, _)
processNodes(lines, params) ==
    IF Len(lines) = 0 THEN {<<>>}
    ELSE LET line == TrimSpace(lines[1])
             rest == processNodes(Tail(lines), params)
         IN  IF line = "" THEN rest
             ELSE {<<l>> \o r : l \in LineResults(line, params), r \in rest}

\* the most key=value pairs in the query of a request
MaxPairs == 2

\* the keys and the values a query carries
QueryKeys == {"udp", "quic", "tfo", "t"}

QueryVals == {"0", "1"}

Queries == UNION {[1..n -> QueryKeys \X QueryVals] : n \in 0..MaxPairs}

\* contents of node.conf
ManifestPool ==
    { "X = ss,1.1.1.1,443, udp-relay=0,block-quic=0,tfo=0",
      "A US^U^S-01 = ss,1.1.1.1,443, \nB HK^H^K-01 = trojan,5.5.5.5,443, password=p,sni=a.io",
      "Y = ss,2.2.2.2,1, tfo=1\n\nZ = ss,3.3.3.3,1, udp-relay=1,x=2\n",
      "" }

\* no refresh run is under way
InitRewrite ==
    /\ pc = "idle"
    /\ subs = EmptyMap
    /\ fetchTry = EmptyMap
    /\ rawProxies = EmptyMap
    /\ nodes = <<>>
    /\ heap = <<>>
    /\ stats = EmptyMap
    /\ parsed = <<>>
    /\ ipNodes = <<>>
    /\ domainNodes = <<>>
    /\ dnsPending = {}
    /\ dnsResults = <<>>
    /\ newNodes = <<>>
    /\ uniqueSet = {}
    /\ fidx = 1
    /\ ingressOut = <<>>
    /\ worker = <<>>
    /\ nodeConf \in {FileOf(m) : m \in ManifestPool}
    /\ preConf = nodeConf
    /\ written = FALSE
    /\ published = <<>>
    /\ rendered = ""
    /\ manifest = nodeConf.data
    /\ query \in Queries
    /\ served = <<>>
    /\ first = <<>>
    /\ passes = 0
    /\ conc = 0
    /\ flight = {}
    /\ probes = <<>>
    /\ NoService

\* processNodes on the lines of node.conf
ProcessFirst ==
    /\ passes = 0
    /\ \E r \in processNodes(loadNodeConf(manifest), Values(query)) :
           /\ served' = r
           /\ first' = r
    /\ passes' = 1
    /\ UNCHANGED << runVars, manifest, query, svcVars >>

\* processNodes on the lines it returned, with the same query
ProcessAgain ==
    /\ passes = 1
    /\ \E r \in processNodes(served, Values(query)) : served' = r
    /\ passes' = 2
    /\ UNCHANGED << runVars, manifest, query, first, svcVars >>

NextRewrite ==
    \/ ProcessFirst
    \/ ProcessAgain

SpecRewrite == InitRewrite /\ [][NextRewrite]_vars

(***************************************************************************)
(* server.go and main.go: the service around the refresh runs              *)
(***************************************************************************)

\* getToken: the token of the TOKEN variable or of the token file
ConfiguredToken == "tk"

\* url.Values.Get: the first value of the key, "" without one
Get(q, k) ==
    LET at == {i \in 1..Len(q) : q[i][1] = k}
    IN  IF at = {} THEN "" ELSE q[CHOOSE i \in at : \A j \in at : i <= j][2]

\* a validateToken that takes every token that is not empty
validateTokenAny(q) == Get(q, "t") # ""

\* validateToken
validateToken(q) ==
    LET token == Get(q, "t")
    IN  token # "" /\ token = ConfiguredToken

\* an isForceUpdate that wants a value for f
isForceUpdateValued(q) == Get(q, "f") # ""

\* isForceUpdate: the key f is in the query, with or without a value
isForceUpdate(q) == "f" \in DOMAIN Values(q)

\* nodeConfExists: os.Stat succeeds
nodeConfExists(file) == file.exists

\* what handleConflux sent: the status, the body, and whether it called
\* loadNodeConf on the way
Response(status, body, read) == [status |-> status, body |-> body, read |-> read]

\* the most refresh runs the requests of one execution start
MaxRuns == 2

\* "go updateNodes()": a run that has not reached writeNodeConf; a run is
\* "open" between the two steps of its os.WriteFile, "done" after it, and
\* "skipped" when its content was blank
NewRun == [st |-> "running", content |-> ""]

ServeQueries ==
    {tq \o fq \o oq :
        tq \in {<<>>, << <<"t", "">> >>, << <<"t", "tk">> >>, << <<"t", "no">> >>},
        fq \in {<<>>, << <<"f", "">> >>},
        oq \in {<<>>, << <<"udp", "1">> >>}}

\* the requests: GET with every query, OPTIONS without a query and with the
\* token and f
Requests ==
    {<<m, q>> \in {"GET", "OPTIONS"} \X ServeQueries :
        m = "OPTIONS" => q \in {<<>>, << <<"t", "tk">>, <<"f", "">> >>}}

\* handleConflux, for a request with this method and this query
handleConflux(m, q) ==
    /\ method' = m
    /\ query' = q
    /\ event' = "request"
    /\ IF m = "OPTIONS"
       THEN /\ resp' = Response(204, "", FALSE)
            /\ UNCHANGED << runs, served >>
       ELSE IF ~validateToken(q)
       THEN /\ resp' = Response(401, "invalid token", FALSE)
            /\ UNCHANGED << runs, served >>
       ELSE IF isForceUpdate(q)
       THEN /\ Len(runs) < MaxRuns
            /\ runs' = Append(runs, NewRun)
            /\ resp' = Response(202, "update triggered", FALSE)
            /\ UNCHANGED served
       ELSE IF ~nodeConfExists(nodeConf)
       THEN /\ Len(runs) < MaxRuns
            /\ runs' = Append(runs, NewRun)
            /\ resp' = Response(204, "node.conf updating", FALSE)
            /\ UNCHANGED served
       ELSE \E err \in BOOLEAN :
                IF err
                THEN /\ resp' = Response(500, "read node.conf error", TRUE)
                     /\ UNCHANGED << runs, served >>
                ELSE /\ \E r \in processNodes(loadNodeConf(nodeConf.data), Values(q)) :
                            /\ served' = r
                            /\ resp' = Response(200, Join(r, "\n"), TRUE)
                     /\ UNCHANGED runs
    /\ UNCHANGED << stageVars, nodeConf, manifest, first, passes, lastWrite, age, chk >>

\* the contents writeNodeConf of a run can have built: two manifests of
\* different lengths, and nothing when no node survived
RunContents ==
    { "A US^U^S-01 = ss,1.1.1.1,443, udp-relay=1\nB HK^H^K-01 = trojan,5.5.5.5,443, password=p",
      "B TW^*-01 = vmess,6.6.6.6,80, ",
      "" }

\* a write(2) of data at offset 0 of a file that holds old
WriteAt0(old, data) == data \o (IF Len(old) > Len(data) THEN From(old, Len(data) + 1) ELSE "")

\* a run reaches writeNodeConf: blank content is not written; otherwise
\* os.WriteFile opens node.conf with O_CREATE and O_TRUNC, which leaves an
\* empty file until the data is written
RunPublish(i) ==
    /\ runs[i].st = "running"
    /\ event' = "publish"
    /\ \E content \in RunContents :
           IF ShouldWrite(content)
           THEN /\ runs' = [runs EXCEPT ![i] = [st |-> "open", content |-> content]]
                /\ nodeConf' = FileOf("")
                /\ age' = 0
           ELSE /\ runs' = [runs EXCEPT ![i].st = "skipped"]
                /\ UNCHANGED << nodeConf, age >>
    /\ UNCHANGED << stageVars, serveOnly, method, resp, lastWrite, chk >>

\* os.WriteFile writes the data through its own descriptor, from offset 0,
\* and closes the file
RunWrite(i) ==
    /\ runs[i].st = "open"
    /\ event' = "write"
    /\ runs' = [runs EXCEPT ![i] = [st |-> "done", content |-> ""]]
    /\ nodeConf' = FileOf(WriteAt0(nodeConf.data, runs[i].content))
    /\ lastWrite' = runs[i].content
    /\ age' = 0
    /\ UNCHANGED << stageVars, serveOnly, method, resp, chk >>

\* the service after start-up: no request yet, node.conf absent or as an
\* earlier run left it
InitServe ==
    /\ Idle
    /\ nodeConf \in {NoFile, FileOf(OldManifest)}
    /\ manifest = ""
    /\ query = <<>>
    /\ served = <<>>
    /\ first = <<>>
    /\ passes = 0
    /\ method = ""
    /\ resp = Response(0, "", FALSE)
    /\ runs = <<>>
    /\ lastWrite = nodeConf.data
    /\ event = "boot"
    /\ age = 0
    /\ chk = "sleep"

NextServe ==
    \/ \E r \in Requests : handleConflux(r[1], r[2])
    \/ \E i \in 1..Len(runs) : RunPublish(i)
    \/ \E i \in 1..Len(runs) : RunWrite(i)

SpecServe == InitServe /\ [][NextServe]_vars

\* time.Since(info.ModTime()) > 24*time.Hour, in sleeps of six hours
StaleTicks == 4

\* the age of node.conf is counted up to this many sleeps
AgeCap == 5

\* startNodeConfChecker: time.Sleep(6 * time.Hour) returns
CheckerSleep ==
    /\ chk = "sleep"
    /\ chk' = "awake"
    /\ age' = IF age < AgeCap THEN age + 1 ELSE age
    /\ event' = "sleep"
    /\ UNCHANGED << stageVars, nodeConf, serveOnly, method, resp, runs, lastWrite >>

\* startNodeConfChecker: os.Stat, the test of the modification time, and
\* the call of updateNodes
CheckerCheck ==
    /\ chk = "awake"
    /\ IF nodeConfExists(nodeConf) /\ age >= StaleTicks
       THEN /\ runs' = <<NewRun>>
            /\ chk' = "update"
            /\ event' = "checker"
       ELSE /\ chk' = "sleep"
            /\ event' = "skip"
            /\ UNCHANGED runs
    /\ UNCHANGED << stageVars, nodeConf, serveOnly, method, resp, lastWrite, age >>

\* updateNodes returns to the loop of the checker
CheckerResume ==
    /\ chk = "update"
    /\ runs[1].st \in {"done", "skipped"}
    /\ runs' = <<>>
    /\ chk' = "sleep"
    /\ event' = "return"
    /\ UNCHANGED << stageVars, nodeConf, serveOnly, method, resp, lastWrite, age >>

\* main: checkAndUpdateNodeConf runs updateNodes before the checker and the
\* server start, when node.conf is absent
CheckAndUpdate ==
    /\ chk = "boot"
    /\ IF ~nodeConfExists(nodeConf)
       THEN /\ runs' = <<NewRun>>
            /\ chk' = "update"
            /\ event' = "bootrun"
       ELSE /\ chk' = "sleep"
            /\ event' = "started"
            /\ UNCHANGED runs
    /\ UNCHANGED << stageVars, nodeConf, serveOnly, method, resp, lastWrite, age >>

\* the service left to itself from the start of main: node.conf absent, or
\* left by an earlier execution any number of sleeps ago
InitChecker ==
    /\ Idle
    /\ nodeConf \in {NoFile} \cup {FileOf(m) : m \in {OldManifest} \cup {c \in RunContents : ShouldWrite(c)}}
    /\ manifest = ""
    /\ query = <<>>
    /\ served = <<>>
    /\ first = <<>>
    /\ passes = 0
    /\ method = ""
    /\ resp = Response(0, "", FALSE)
    /\ runs = <<>>
    /\ lastWrite = nodeConf.data
    /\ event = "boot"
    /\ age \in (IF nodeConfExists(nodeConf) THEN 0..AgeCap ELSE {0})
    /\ chk = "boot"

NextChecker ==
    \/ CheckAndUpdate
    \/ CheckerSleep
    \/ CheckerCheck
    \/ CheckerResume
    \/ chk = "update" /\ RunPublish(1)
    \/ chk = "update" /\ RunWrite(1)

\* the goroutine of the checker is the only one: it is scheduled whenever
\* it can take a step
SpecChecker == InitChecker /\ [][NextChecker]_vars /\ WF_vars(NextChecker)

(***************************************************************************)
(* main.go: the log file and its weekly rotation                           *)
(***************************************************************************)

\* the last day of the clock
MaxDays == 15

\* getMondayZero: midnight of the Monday of the week of a day; Weekday() is
\* 0 on a Sunday and day 0 is a Monday
getMondayZero(now) ==
    LET weekday == (now + 1) % 7
        offset  == (weekday + 6) % 7
    IN  now - offset

\* InitLog: the function handed to logOnce runs on the first call only; it
\* opens the file and, when that succeeds (ok), makes it the output of the
\* logger; a later call does nothing and returns the nil error
InitLog(logPath, ok) ==
    IF logOnce
    THEN UNCHANGED << logOnce, files, logFile, logOut >>
    ELSE /\ logOnce' = TRUE
         /\ IF ok
            THEN /\ files' = Append(files, [path |-> logPath, open |-> TRUE])
                 /\ logFile' = Len(files) + 1
                 /\ logOut' = Len(files) + 1
            ELSE UNCHANGED << files, logFile, logOut >>

\* main: the clock is read, InitLog is called with a file named after the
\* time of the start, and the rotator is started; the process exits when
\* the file cannot be created
main ==
    /\ rot = "boot"
    /\ \E now \in 0..6, ok \in BOOLEAN :
           /\ day' = now
           /\ monday' = getMondayZero(now)
           /\ InitLog("log/start-" \o Itoa(now), ok)
           /\ rot' = IF ok THEN "sleep" ELSE "exit"
    /\ UNCHANGED << runVars, serveOnly, method, resp, runs, lastWrite, event, age, chk,
                    lastLog, switches >>

\* logf: log.Printf writes to the output set by InitLog; a write to a
\* closed file fails and the message is lost to the log file
Info ==
    /\ rot \in {"sleep", "closed"}
    /\ lastLog' = IF logOut = 0 THEN "stderr"
                  ELSE IF files[logOut].open THEN files[logOut].path
                  ELSE "closed"
    /\ UNCHANGED << runVars, serveOnly, method, resp, runs, lastWrite, event, age, chk,
                    day, monday, rot, logOnce, files, logFile, logOut, switches >>

\* the loop of startLogRotator up to CloseLog: the sleep, during which a
\* day may pass, the test for a new Monday, and CloseLog on the file that
\* logFile holds
RotatorWake ==
    /\ rot = "sleep"
    /\ \E now \in {day, day + 1} :
           /\ now <= MaxDays
           /\ day' = now
           /\ IF getMondayZero(now) > monday
              THEN /\ monday' = getMondayZero(now)
                   /\ files' = IF logFile # 0
                               THEN [files EXCEPT ![logFile].open = FALSE]
                               ELSE files
                   /\ rot' = "closed"
              ELSE UNCHANGED << monday, files, rot >>
    /\ UNCHANGED << runVars, serveOnly, method, resp, runs, lastWrite, event, age, chk,
                    logOnce, logFile, logOut, lastLog, switches >>

\* the rotator calls InitLog with the file named after the new Monday and,
\* as InitLog returns no error, logs the switch
RotatorInit ==
    /\ rot = "closed"
    /\ InitLog("log/" \o Itoa(monday), TRUE)
    /\ lastLog' = IF logOut' = 0 THEN "stderr"
                  ELSE IF files'[logOut'].open THEN files'[logOut'].path
                  ELSE "closed"
    /\ switches' = switches + 1
    /\ rot' = "sleep"
    /\ UNCHANGED << runVars, serveOnly, method, resp, runs, lastWrite, event, age, chk,
                    day, monday >>

\* the process before main has run, with no refresh run and no request
InitRotator ==
    /\ Idle
    /\ NoService
    /\ nodeConf = NoFile
    /\ manifest = ""
    /\ query = <<>>
    /\ served = <<>>
    /\ first = <<>>
    /\ passes = 0

NextLog ==
    \/ main
    \/ Info
    \/ RotatorWake
    \/ RotatorInit

SpecLog == InitRotator /\ [][NextLog]_vars

(***************************************************************************)
(* Properties of a refresh run                                             *)
(***************************************************************************)

\* the lines of the manifest as it stands
ManifestLines == Split(nodeConf.data, "\n")

\* type, server and port as a manifest line carries them
TripleOfLine(line) ==
    LET fields == Split(From(line, Index(line, " = ") + 3), ",")
    IN  << fields[1], fields[2], fields[3] >>

\* type, server and port of a node
TripleOf(n) == << n.Type, n.Server, n.Port >>

\* the positions in a node list of the nodes of source s
OfSource(list, s) == {i \in 1..Len(list) : list[i].Source = s}

\* the counters of source s; zero for a source ingress never met
StatOf(s) == IF s \in DOMAIN stats THEN stats[s] ELSE [Total |-> 0, Duplicated |-> 0, Failed |-> 0]

\* the parsed nodes of source s that put at least one node into the output
\* of ingress (a clone keeps the reference to the Params map of its origin)
Contributing(s) ==
    {i \in OfSource(parsed, s) :
        \E k \in 1..Len(ingressOut) : ingressOut[k].Params = parsed[i].Params}

\* ingress has returned
AfterIngress == pc \in {"egress", "publish", "done", "crashed"}

\* ingress has just returned: no probe has begun
IngressReturned == pc = "egress" /\ \A i \in 1..Len(worker) : worker[i].st = "idle"

\* C1: after a refresh run that wrote the manifest, every written line is the
\* line of a node whose iso is non-empty, whose emoji is non-empty and whose
\* server is an IP literal; no domain-named server is in the output of
\* ingress and no unprobed node is in the output of egress.
C1_ManifestNodesProbed ==
    /\ IngressReturned => \A i \in 1..Len(ingressOut) : isIP(ingressOut[i].Server)
    /\ pc \in {"publish", "done"} =>
           \A i \in 1..Len(nodes) :
               nodes[i].ISO # "" /\ nodes[i].Emoji # "" /\ isIP(nodes[i].Server)
    /\ written =>
           /\ Len(ManifestLines) = Len(published)
           /\ \A i \in 1..Len(published) :
                  /\ published[i].ISO # ""
                  /\ published[i].Emoji # ""
                  /\ isIP(published[i].Server)
                  /\ TripleOfLine(ManifestLines[i]) = TripleOf(published[i])

\* a manifest was written with a line for a clone of a domain node
C1_Witness ==
    /\ written
    /\ \E i \in 1..Len(published), j \in 1..Len(parsed) :
           /\ parsed[j].Params = published[i].Params
           /\ ~isIP(parsed[j].Server)
           /\ TripleOfLine(ManifestLines[i])[2] = "5.5.5.5"

C4_WriteIffContent ==
    /\ pc # "done" => ~written /\ nodeConf = preConf
    /\ pc = "done" =>
           /\ written <=> TrimSpace(rendered) # ""
           /\ written => nodeConf = [exists |-> TRUE, data |-> rendered]
           /\ ~written => nodeConf = preConf
           /\ (published = <<>> \/ \A s \in Sources : rawProxies[s] = <<>>) => ~written

\* every fetch failed although the providers had proxy lines, the run ended
\* and the earlier manifest is in place
C4_Witness ==
    /\ pc = "done"
    /\ \A s \in Sources : rawProxies[s] = <<>>
    /\ \E s \in Sources : Len(extractProxyLines(subs[s])) > 0
    /\ ~written
    /\ nodeConf.data = OldManifest

\* the probe of node n ends with an iso and an emoji on the node
ProbesWell(n) == ~Detect(n).failed /\ ~getEmojiPanics(Detect(n).iso)

\* C5: when a source was fetched and yields nodes that resolve and probe
\* successfully, the run writes a manifest with exactly the surviving nodes,
\* however many other sources failed both attempts; a failed source has no
\* line in it and does not stop the pipeline.
C5_OneSourceSuffices ==
    (/\ pc \in {"done", "crashed"}
     /\ \E k \in 1..Len(ingressOut) : ProbesWell(ingressOut[k])) =>
        /\ pc = "done"
        /\ written
        /\ {TripleOf(published[i]) : i \in 1..Len(published)} =
               {TripleOf(ingressOut[k]) : k \in {x \in 1..Len(ingressOut) : ProbesWell(ingressOut[x])}}
        /\ \A s \in Sources : rawProxies[s] = <<>> => OfSource(published, s) = {}

\* the result the third loop of ingress is at
Current == dnsResults[fidx]

\* the places in ips, in order, of the addresses that make a triple no
\* emitted node has and that no earlier place of ips holds
FreshPlaces(node, ips, emitted) ==
    SelectSeq([j \in 1..Len(ips) |-> j],
              LAMBDA j : /\ \A k \in 1..Len(emitted) :
                                TripleOf(emitted[k]) # << node.Type, ips[j], node.Port >>
                         /\ \A i \in 1..(j - 1) : ips[i] # ips[j])

GainsSNI(p) ==
    /\ pc = "fission"
    /\ fidx <= Len(dnsResults)
    /\ Current.node.Params = p
    /\ Len(Current.ips) >= 1
    /\ Current.node.Type \in {"trojan", "vmess"}
    /\ ("sni" \notin DOMAIN heap[p] \/ heap[p]["sni"] = "")
    /\ ~isIP(Current.node.Server)
    /\ Contains(Current.node.Server, ".")

\* the maps as a step of ingress or egress must leave them
HeapAfter ==
    [p \in DOMAIN heap |->
        IF GainsSNI(p)
        THEN [k \in DOMAIN heap[p] \cup {"sni"} |->
                 IF k = "sni" THEN Current.node.Server ELSE heap[p][k]]
        ELSE heap[p]]

\* C7: during ingress the sni of a node's parameters is set to the original
\* domain exactly when the type is trojan or vmess, the sni is empty or
\* absent and the original server is a domain; nothing else in any map
\* changes, so an sni that is set is never overwritten and a node that came
\* with an IP literal never gains one.
C7_SNIBackfill ==
    [][(pc \in {"ingress", "dns", "fission", "egress"}) => (heap' = HeapAfter)]_vars

\* ingress returned a clone whose map gained the domain as sni, beside a
\* node whose own sni is still in place
C7_Witness ==
    /\ AfterIngress
    /\ \E k \in 1..Len(ingressOut) :
           /\ ~Contains(ingressOut[k].ParamString, "sni=")
           /\ MapGet(heap[ingressOut[k].Params], "sni") = "a.io"
    /\ \E r \in 1..Len(dnsResults) :
           /\ Len(dnsResults[r].ips) >= 1
           /\ Contains(dnsResults[r].node.ParamString, "sni=s.io")
           /\ MapGet(heap[dnsResults[r].node.Params], "sni") = "s.io"

\* the pairs of results with the same type and port whose answers hold the
\* same single address
SameAddressPairs ==
    {pr \in (1..Len(dnsResults)) \X (1..Len(dnsResults)) :
        /\ pr[1] < pr[2]
        /\ dnsResults[pr[1]].node.Type = dnsResults[pr[2]].node.Type
        /\ dnsResults[pr[1]].node.Port = dnsResults[pr[2]].node.Port
        /\ Cardinality(Range(dnsResults[pr[1]].ips)) = 1
        /\ Range(dnsResults[pr[1]].ips) = Range(dnsResults[pr[2]].ips)}

\* the node n has a node of its own in the output of ingress
Emitted(n) == \E k \in 1..Len(ingressOut) : ingressOut[k].Params = n.Params

\* the parsed nodes of source s that ingress dropped as duplicates: nothing
\* of them in the output although the resolution gave an address
Discarded(s) ==
    {i \in OfSource(parsed, s) :
        /\ ~Emitted(parsed[i])
        /\ \A r \in 1..Len(dnsResults) :
               dnsResults[r].node.Params = parsed[i].Params => Len(dnsResults[r].ips) >= 1}

Overrides == {k \in {"udp", "quic", "tfo"} : \E i \in 1..Len(query) : query[i][1] = k}

\* the attribute an override stands for
AttrOf(k) == CASE k = "udp" -> "udp-relay" [] k = "quic" -> "block-quic" [] k = "tfo" -> "tfo"

\* every recognised override of the query has one value
SingleValued == \A k \in Overrides : Cardinality({i \in 1..Len(query) : query[i][1] = k}) = 1

\* the value of a single-valued override
ValueOf(k) == query[CHOOSE i \in 1..Len(query) : query[i][1] = k][2]

\* text with the value after its first "attr=" replaced by v, up to the
\* next comma or the end
WithValue(text, attr, v) ==
    LET at    == Index(text, attr \o "=")
        value == From(text, at + Len(attr) + 1)
        comma == Index(value, ",")
    IN  SubSeq(text, 1, at + Len(attr)) \o v \o (IF comma = 0 THEN "" ELSE From(value, comma))

\* text with the value of every override in ks whose attribute it has
RECURSIVE WithValues(_, _)
WithValues(text, ks) ==
    IF ks = {} THEN text
    ELSE LET k == CHOOSE x \in ks : TRUE
         IN  WithValues(IF Contains(text, AttrOf(k) \o "=")
                        THEN WithValue(text, AttrOf(k), ValueOf(k))
                        ELSE text,
                        ks \ {k})

\* ",attr=v" for the overrides in order
RECURSIVE Appended(_)
Appended(order) ==
    IF Len(order) = 0 THEN ""
    ELSE "," \o AttrOf(order[1]) \o "=" \o ValueOf(order[1]) \o Appended(Tail(order))

\* the lines the two rules allow for text: the values of the attributes it
\* has replaced, and ",attr=v" appended for those it lacks, in any order
Rewritten(text) ==
    {WithValues(text, Overrides) \o Appended(order) :
        order \in Orders({k \in Overrides : ~Contains(text, AttrOf(k) \o "=")})}

\* the lines of node.conf that are not blank
NonBlank == SelectSeq(Split(manifest, "\n"), LAMBDA l : TrimSpace(l) # "")

\* C9 as stated: for every manifest line and every recognised override with
\* value v, the served line is the line with the value of attr replaced by
\* v up to the next comma or the end and every other character unchanged
\* when the line has "attr=", and the line with ",attr=v" appended when it
\* has not.
C9_RewriteOfLine ==
    (passes >= 1 /\ SingleValued /\ Overrides # {}) =>
        /\ Len(first) = Len(NonBlank)
        /\ \A i \in 1..Len(NonBlank) : first[i] \in Rewritten(NonBlank[i])

\* C9 amended: the two rules hold of every line of the manifest that is not
\* blank, taken without its leading and trailing white space; a blank line
\* is not served.  With several overrides the served line carries the
\* replacement of each attribute the line has and, after it, the appended
\* ",attr=v" of each attribute it lacks.
C9_RewriteOfTrimmedLine ==
    (passes >= 1 /\ SingleValued) =>
        /\ Len(first) = Len(NonBlank)
        /\ \A i \in 1..Len(NonBlank) : first[i] \in Rewritten(TrimSpace(NonBlank[i]))

\* a line was served with one attribute replaced by a new value and another
\* appended
C9_Witness ==
    /\ passes >= 1
    /\ SingleValued
    /\ \E i \in 1..Len(NonBlank) :
           /\ \E k \in Overrides : ~Contains(NonBlank[i], AttrOf(k) \o "=")
           /\ \E k \in Overrides :
                  /\ Contains(NonBlank[i], AttrOf(k) \o "=")
                  /\ ~Contains(NonBlank[i], AttrOf(k) \o "=" \o ValueOf(k))
                  /\ Contains(first[i], AttrOf(k) \o "=" \o ValueOf(k))

\* C10: override rewriting is idempotent: for every list of lines and every
\* query, whose keys may carry several values, processNodes applied to its
\* own result with the same query returns that result.
C10_Idempotent == passes = 2 => served = first

(***************************************************************************)
(* Properties of the served manifest                                       *)
(***************************************************************************)

\* the query parameters processNodes knows
Recognised == {"udp", "quic", "tfo"}

\* the values a query gives to a key, none when the key is absent
ValuesOf(q, k) == IF k \in DOMAIN Values(q) THEN Values(q)[k] ELSE <<>>

\* two queries agree on the values of udp, quic and tfo
SameOverrides(q1, q2) == \A k \in Recognised : ValuesOf(q1, k) = ValuesOf(q2, k)

\* the bodies handleConflux can send for a query: the lines joined by "\n"
Bodies(q) == {Join(r, "\n") : r \in processNodes(loadNodeConf(manifest), Values(q))}

\* C11: only udp, quic and tfo influence the served manifest: every request
\* that agrees with the served one on the values of udp, quic and tfo gets
\* the very body that was served, whatever other parameters (the token t
\* among them) it carries, and no other parameter is written into a line.
C11_OnlyOverridesInfluence ==
    passes >= 1 =>
        /\ \A q \in Queries : SameOverrides(q, query) => Bodies(q) = {Join(first, "\n")}
        /\ \A i \in 1..Len(first) :
               \A j \in 1..Len(query) :
                   query[j][1] \notin Recognised =>
                       ~Contains(first[i], "," \o query[j][1] \o "=" \o query[j][2])

(***************************************************************************)
(* Properties of the parser and the publisher                              *)
(***************************************************************************)

\* parseNodeLine on a line, then formatNode on the node it returns under the
\* name it returns, then the boolean substitutions
RoundTrip(line) ==
    LET p == parseNodeLine(line, "")
    IN  IF ~p.ok THEN ""
        ELSE Booleans(formatNode(p.node, p.params, p.node.OriginName,
                                 CHOOSE o \in Orders(AddedKeys(p.node, p.params)) : TRUE))

\* the published node of the i-th line has no parameter but those of its
\* ParamString
AllParsed(i) == AddedKeys(published[i], heap[published[i].Params]) = {}

\* C12: round trip: every line of a written manifest whose node carries only
\* the parameters it was parsed with is reproduced byte for byte by
\* parseNodeLine followed by formatNode under the same display name and the
\* boolean substitutions.
C12_RoundTrip ==
    (pc = "done" /\ written) =>
        /\ Len(ManifestLines) = Len(published)
        /\ \A i \in 1..Len(published) :
               AllParsed(i) =>
                   /\ parseNodeLine(ManifestLines[i], "").ok
                   /\ RoundTrip(ManifestLines[i]) = ManifestLines[i]

\* a manifest with a line whose boolean was substituted, a line without
\* parameters and a line that makes the round trip
C12_Witness ==
    /\ pc = "done"
    /\ written
    /\ \E i, j \in 1..Len(published) :
           /\ AllParsed(i)
           /\ Contains(ManifestLines[i], ", udp-relay=1")
           /\ RoundTrip(ManifestLines[i]) = ManifestLines[i]
           /\ AllParsed(j)
           /\ published[j].ParamString = ""
           /\ HasSuffix(ManifestLines[j], ", ")

(***************************************************************************)
(* Properties of the request handler                                       *)
(***************************************************************************)

\* the key occurs in the query
HasKey(q, k) == \E i \in 1..Len(q) : q[i][1] = k

\* the request carries the configured token
ValidToken(q) == Get(q, "t") # "" /\ Get(q, "t") = ConfiguredToken

\* what the claim of C13 says of one pass of handleConflux
C13_Step ==
    (event' = "request") =>
        LET started == runs' # runs
        IN  /\ started <=> /\ method' # "OPTIONS"
                           /\ ValidToken(query')
                           /\ HasKey(query', "f") \/ ~nodeConf.exists
            /\ started => /\ runs' = Append(runs, NewRun)
                          /\ nodeConf' = nodeConf
                          /\ resp'.status = IF HasKey(query', "f") THEN 202 ELSE 204
            /\ resp'.status = 200 => ~started

\* C13: handleConflux starts updateNodes exactly when the request is not
\* OPTIONS, carries a valid token, and has the parameter f or finds no
\* node.conf; the response (202 with f, else 204) is sent while the run has
\* only been started, and a request answered 200 starts no run.
C13_RefreshStarts == [][C13_Step]_vars

\* a request without f that found no node.conf was answered 204 and started
\* the second run of the execution, which has not reached its write
C13_Witness ==
    /\ event = "request"
    /\ method = "GET"
    /\ ~HasKey(query, "f")
    /\ ~nodeConf.exists
    /\ resp.status = 204
    /\ Len(runs) = 2
    /\ runs[2] = NewRun

\* what the claim of C14 says of one pass of handleConflux
C14_Step ==
    (/\ event' = "request"
     /\ method' # "OPTIONS"
     /\ Get(query', "t") = "" \/ Get(query', "t") # ConfiguredToken)
        => /\ resp'.status = 401
           /\ resp'.body = "invalid token"
           /\ ~resp'.read
           /\ served' = served
           /\ runs' = runs

\* C14: every request other than OPTIONS whose t is empty or is not the
\* configured token is answered 401, gets no manifest content, does not
\* make the handler read node.conf and starts no refresh.
C14_Unauthorized == [][C14_Step]_vars

\* a request with a wrong token and with f, on an existing node.conf, was
\* answered 401
C14_Witness ==
    /\ event = "request"
    /\ method = "GET"
    /\ Get(query, "t") = "no"
    /\ HasKey(query, "f")
    /\ nodeConf.exists
    /\ resp.status = 401
    /\ runs = <<>>

\* the bodies the override rewriting makes of a content of node.conf
BodiesOf(content, q) == {Join(r, "\n") : r \in processNodes(loadNodeConf(content), Values(q))}

\* what the claim of C15 says of one pass of handleConflux
C15_Step ==
    (event' = "request") =>
        /\ resp'.status = 200 =>
               /\ ShouldWrite(lastWrite)
               /\ resp'.body \in BodiesOf(lastWrite, query')
        /\ (/\ method' # "OPTIONS"
            /\ ValidToken(query')
            /\ ~HasKey(query', "f")
            /\ ~nodeConf.exists)
               => /\ resp'.status = 204
                  /\ runs' = Append(runs, NewRun)

\* C15: a body sent with 200 is the override rewriting of the complete
\* content of the last write to node.conf that succeeded, never of an empty
\* or partly written file, also while a run is writing; without a manifest
\* the answer is 204 and a refresh is started.
C15_ServesLastWritten == [][C15_Step]_vars

\* C16: when two runs that both build content that is not blank have
\* finished, node.conf holds exactly the content of the run that wrote
\* last, one of the two, and no mixture.
C16_LastWriterWins ==
    (/\ Len(runs) = 2
     /\ \A i \in 1..2 : runs[i].st = "done")
        => /\ nodeConf.data = lastWrite
           /\ lastWrite \in {c \in RunContents : ShouldWrite(c)}

(***************************************************************************)
(* Properties of the whole run                                             *)
(***************************************************************************)

\* the run of the pipeline on the fetched lines in which every range over
\* the source mapping goes in sorted order and every DoH answer arrives in
\* the order of the queries: the parsed nodes and their maps
RefParsed == ParsedInOrder(rawProxies, SortStrings(Sources))

RefNodes == [i \in 1..Len(RefParsed) |-> [RefParsed[i].node EXCEPT !.Params = i]]

RefHeap == [i \in 1..Len(RefParsed) |-> RefParsed[i].params]

\* the third loop of ingress over these results
RECURSIVE RefFission(_, _)
RefFission(results, st) ==
    IF Len(results) = 0 THEN st
    ELSE LET node == results[1].node
             ips  == results[1].ips
         IN  IF Len(ips) = 0 THEN RefFission(Tail(results), st)
             ELSE LET acc == FissionLoop(node, ips,
                                 [set |-> st.set, out |-> st.out, added |-> FALSE,
                                  map |-> st.heap[node.Params]])
                  IN  RefFission(Tail(results),
                          [set |-> acc.set, out |-> acc.out,
                           heap |-> [st.heap EXCEPT ![node.Params] = acc.map]])

\* ingress of that run
RefIngress ==
    LET ips  == SelectSeq(RefNodes, LAMBDA n : isIP(n.Server))
        doms == SelectSeq(RefNodes, LAMBDA n : ~isIP(n.Server))
        acc  == IPLoop(ips, [set |-> {}, out |-> <<>>,
                             stats |-> CountTotals(RefNodes, EmptyMap)])
    IN  RefFission([i \in 1..Len(doms) |->
                       [node |-> doms[i], ips |-> resolveA1_1_1_1(doms[i].Server)]],
                   [set |-> acc.set, out |-> acc.out, heap |-> RefHeap])

\* egress of that run
RefEgress ==
    LET out == RefIngress.out
    IN  SelectSeq([i \in 1..Len(out) |->
                      LET d == Detect(out[i])
                      IN  IF d.failed THEN out[i]
                          ELSE [out[i] EXCEPT !.ISO = d.iso, !.Emoji = getEmojiByISO(d.iso)]],
                  Probed)

\* what the renaming publisher renders in that run
RefRenamed ==
    LET h      == renameNodes(RefEgress, RefIngress.heap)
        sorted == SortNodes(RefEgress)
    IN  Join([i \in 1..Len(sorted) |->
                 RenameLine(sorted[i], h,
                     CHOOSE o \in Orders(AddedKeys(sorted[i], h[sorted[i].Params])) : TRUE)],
             "\n")

\* what the grouping publisher renders in that run
RefGrouped ==
    LET list == Grouped(RefEgress)
        h    == RefIngress.heap
    IN  Booleans(Join([i \in 1..Len(list) |->
                 GroupLine(list, i, h,
                     CHOOSE o \in Orders(AddedKeys(list[i], h[list[i].Params])) : TRUE)],
             "\n"))

\* the run at hand went through renameNodes
Renaming == \E i \in 1..Len(heap) : "_newname" \in DOMAIN heap[i]

\* C17: determinism: with the subscriptions, the DoH answers and the probe
\* results fixed, a run renders the manifest that the run in sorted source
\* order and query-ordered DoH answers renders, whatever the scheduling,
\* the order of the DoH answers and the order of the range over the sources.
C17_Deterministic ==
    pc = "done" => rendered = IF Renaming THEN RefRenamed ELSE RefGrouped

\* the display name of a manifest line
DisplayName(line) == TrimSpace(SplitN2(line, "=")[1])

\* two nodes of one (source, iso) group
SameGroup(a, b) == a.Source = b.Source /\ a.ISO = b.ISO

\* the place of the i-th node of a list among the nodes of its group
Place(list, i) == Cardinality({j \in 1..i : SameGroup(list[j], list[i])})

\* the name "<source> [<iso><emoji>]-<JJ>" of a node with ordinal k
BracketName(n, k) == n.Source \o " [" \o n.ISO \o n.Emoji \o "]-" \o Pad02(k)

\* the manifest at hand: the lines of each group are contiguous, keep the
\* order of the list handed to the publisher, carry the bracket name with
\* the ordinals 1..n, and no display name occurs twice
GroupNamed ==
    /\ Len(ManifestLines) = Len(published)
    /\ Len(published) = Len(nodes)
    /\ \A i \in 1..Len(published) :
           /\ DisplayName(ManifestLines[i]) = BracketName(published[i], Place(published, i))
           /\ SelectSeq(published, LAMBDA n : SameGroup(n, published[i]))
                  = SelectSeq(nodes, LAMBDA n : SameGroup(n, published[i]))
           /\ \A k \in i..Len(published) :
                  SameGroup(published[i], published[k]) =>
                      \A j \in i..k : SameGroup(published[i], published[j])
    /\ \A i, j \in 1..Len(ManifestLines) :
           i # j => DisplayName(ManifestLines[i]) # DisplayName(ManifestLines[j])

Overdue == age >= StaleTicks

\* C19: without any request, whenever the manifest has not been refreshed
\* for more than 24 hours the periodic checker eventually starts
\* updateNodes, whether node.conf is fresh, stale or absent.
C19_CheckerRefreshes == Overdue ~> (event = "checker")

(***************************************************************************)
(* Properties of the statistics                                            *)
(***************************************************************************)

\* the domain nodes of a source that ingress dropped for an empty DoH answer
FailedByDoH(s) ==
    Cardinality({k \in 1..Len(dnsResults) :
                    dnsResults[k].node.Source = s /\ Len(dnsResults[k].ips) = 0})

\* the nodes of a source that egress dropped
DroppedByEgress(s) == Cardinality(OfSource(ingressOut, s)) - Cardinality(OfSource(nodes, s))

\* C20: after egress, failed of every source is the number of its domain
\* nodes dropped for an empty DoH answer plus the number of its nodes
\* dropped by egress, in every interleaving of the probe workers.
C20_FailedExact ==
    pc \in {"publish", "done"} =>
        \A s \in Sources : StatOf(s).Failed = FailedByDoH(s) + DroppedByEgress(s)

(***************************************************************************)
(* Properties of the egress probes                                         *)
(***************************************************************************)

\* C21: no outcome of an egress probe aborts the run: whether proxy
\* construction fails, both trace endpoints fail, the response has no loc=
\* line or the loc= line carries fewer than two characters, the run goes on
\* to the publisher, and every node of the output of ingress is then either
\* dropped with failed of its source above its count of DoH failures, or
\* kept with a non-empty iso and a non-empty emoji.
C21_NoProbeAborts ==
    /\ pc # "crashed"
    /\ pc = "publish" =>
           \A k \in 1..Len(ingressOut) :
               \/ \E i \in 1..Len(nodes) :
                      /\ TripleOf(nodes[i]) = TripleOf(ingressOut[k])
                      /\ nodes[i].ISO # ""
                      /\ nodes[i].Emoji # ""
               \/ /\ \A i \in 1..Len(nodes) : TripleOf(nodes[i]) # TripleOf(ingressOut[k])
                  /\ StatOf(ingressOut[k].Source).Failed > FailedByDoH(ingressOut[k].Source)

\* C22: at every moment of the egress stage at most 10 probes are in
\* progress, on a node list longer than that, no node is probed twice, and
\* when the stage filters the list every node of the output of ingress has
\* been probed exactly once.
C22_ProbesCapped ==
    /\ Cardinality({i \in 1..Len(worker) : worker[i].st \in {"probing", "rd"}}) <= 10
    /\ \A i \in DOMAIN probes : probes[i] <= 1
    /\ pc = "publish" =>
           \A i \in 1..Len(ingressOut) : i \in DOMAIN probes /\ probes[i] = 1

\* ten probes are in progress and a node waits for the semaphore
C22_Witness ==
    /\ pc = "egress"
    /\ Cardinality({i \in 1..Len(worker) : worker[i].st \in {"probing", "rd"}}) = 10
    /\ \E i \in 1..Len(worker) : worker[i].st = "idle"
    /\ Len(ingressOut) > 10

(***************************************************************************)
(* Properties of the worker pool of concurrentDNSQuery                     *)
(***************************************************************************)

C24_Step ==
    /\ Len(dnsResults') > Len(dnsResults) =>
           /\ DOMAIN rawProxies = Sources
           /\ \A s \in Sources : fetchTry[s] = 0
    /\ probes' # probes =>
           /\ ingressOut = newNodes
           /\ Len(nodes) = Len(ingressOut)
           /\ \A i \in 1..Len(nodes) : TripleOf(nodes[i]) = TripleOf(ingressOut[i])
           /\ fidx > Len(dnsResults)
    /\ (nodeConf' # nodeConf \/ rendered' # rendered \/ pc' = "done") =>
           \A i \in 1..Len(ingressOut) :
               i \in DOMAIN probes /\ probes[i] = 1 /\ worker[i].st = "done"

\* C24: within one refresh run the stages are strictly sequential: no DoH
\* query is made before every subscription fetch of the run has finished,
\* no egress probe is made before ingress has replaced the node list, and
\* the manifest is rendered and written only after every probe of the run
\* has finished.
C24_StagesSequential == [][C24_Step]_vars

\* a run that made a DoH query and two probes has written the manifest
C24_Witness ==
    /\ pc = "done"
    /\ written
    /\ Len(dnsResults) > 0
    /\ Len(ingressOut) > 1
    /\ \A s \in Sources : rawProxies[s] # <<>>

(***************************************************************************)
(* Properties of the fetch                                                 *)
(***************************************************************************)

\* a GET of source s ends in this step
Attempted(s) ==
    \/ fetchTry'[s] # fetchTry[s]
    \/ s \in DOMAIN rawProxies' /\ s \notin DOMAIN rawProxies

\* a step of the fetch stage keeps to the retry rule
C25_Step ==
    /\ \A s \in Sources :
           Attempted(s) =>
               /\ s \notin DOMAIN rawProxies
               /\ fetchTry[s] \in {0, 1}
               /\ \/ s \notin DOMAIN rawProxies' /\ fetchTry[s] = 0 /\ fetchTry'[s] = 1
                  \/ s \in DOMAIN rawProxies' /\ rawProxies'[s] = subs[s]
                  \/ s \in DOMAIN rawProxies' /\ rawProxies'[s] = <<>> /\ fetchTry[s] = 1
    /\ \A s \in DOMAIN rawProxies :
           s \in DOMAIN rawProxies' /\ rawProxies'[s] = rawProxies[s]
    /\ pc = "fetch" /\ pc' # "fetch" => DOMAIN rawProxies = Sources

\* C25: for each source in each run fetchProxies makes at most two GET
\* attempts, the second only after the first ended in a network error or a
\* non-200 status; a 200 on either attempt returns that response's lines and
\* ends the loop; when both attempts fail it returns no line; and
\* fetchAllProxies returns an entry for every configured source.
C25_FetchRetries == [][C25_Step]_vars

\* fetchAllProxies has returned no line for the source whose two attempts
\* failed and the served lines for the other
C25_Witness ==
    /\ pc # "fetch"
    /\ rawProxies["A"] = <<>>
    /\ rawProxies["B"] = subs["B"]
    /\ subs["A"] # <<>>

(***************************************************************************)
(* Properties of the counters of ingress                                   *)
(***************************************************************************)

\* the parsed domain nodes of source s whose DoH answer held no address
Unresolved(s) ==
    {i \in OfSource(parsed, s) :
        ~isIP(parsed[i].Server) /\ Len(resolveA1_1_1_1(parsed[i].Server)) = 0}

\* C26: at the end of ingress, for every source, total is the number of its
\* parsed nodes and each of them is accounted for in exactly one way: it
\* has a node in the output list, or it was counted once in duplicated, or
\* it was counted once in failed (a domain node without a resolved address);
\* hence total = duplicated + failed + the nodes with a node in the output.
C26_IngressAccounting ==
    IngressReturned =>
        \A s \in Sources :
            LET mine == OfSource(parsed, s)
            IN  /\ StatOf(s).Total = Cardinality(mine)
                /\ Contributing(s) \cap Unresolved(s) = {}
                /\ StatOf(s).Failed = Cardinality(Unresolved(s))
                /\ StatOf(s).Duplicated =
                       Cardinality(mine \ (Contributing(s) \cup Unresolved(s)))
                /\ StatOf(s).Total = StatOf(s).Duplicated + StatOf(s).Failed
                                        + Cardinality(Contributing(s))

\* ingress has returned with a node of each kind: one that is in the output,
\* one counted as duplicate and one counted as failed
C26_Witness ==
    /\ IngressReturned
    /\ \E s \in Sources : Contributing(s) # {}
    /\ \E s \in Sources : StatOf(s).Duplicated > 0 /\ StatOf(s).Failed > 0

(***************************************************************************)
(* Properties of the parser                                                *)
(***************************************************************************)

\* the lines after the first [Proxy] marker and before the next header,
\* without the blank ones, the comments and the reject and direct entries
RECURSIVE Window(_, _)
Window(lines, inside) ==
    IF Len(lines) = 0 THEN <<>>
    ELSE LET line == TrimSpace(lines[1])
         IN  IF ~inside
             THEN Window(Tail(lines), HasPrefix(line, "[Proxy]"))
             ELSE IF HasPrefix(line, "[") THEN <<>>
             ELSE (IF \/ line = ""
                      \/ HasPrefix(line, "#")
                      \/ Contains(line, "reject")
                      \/ Contains(line, "direct")
                   THEN <<>> ELSE <<line>>) \o Window(Tail(lines), TRUE)

\* the names of the nodes parseNodeLine accepts among these lines
NamesOf(lines) ==
    LET ps == SelectSeq([i \in 1..Len(lines) |-> parseNodeLine(lines[i], "A")],
                        LAMBDA r : r.ok)
    IN  [i \in 1..Len(ps) |-> ps[i].node.OriginName]

\* C27: extractProxyLines returns exactly the lines after the first [Proxy]
\* marker and before the next [section] header or the end of input, without
\* the blank lines, the lines that begin with # and the lines that contain
\* reject or direct, in their order; a blank line in the section does not
\* end the window.
C27_ProxyWindow ==
    pc = "ingress" =>
        /\ extractProxyLines(rawProxies["A"]) = Window(rawProxies["A"], FALSE)
        /\ [i \in 1..Len(parsed) |-> parsed[i].OriginName]
               = NamesOf(Window(rawProxies["A"], FALSE))

\* C28: every node parseNodeLine accepts has a non-empty origin_name, type,
\* server and port; a line without three non-empty mandatory fields is
\* dropped.
C28_MandatoryFields ==
    pc = "ingress" =>
        \A i \in 1..Len(parsed) :
            /\ parsed[i].OriginName # ""
            /\ parsed[i].Type # ""
            /\ parsed[i].Server # ""
            /\ parsed[i].Port # ""

\* the k=v tokens of a subscription line after its three mandatory fields,
\* trimmed, in their order
KvTokens(line) ==
    LET fields == Split(SplitN2(line, "=")[2], ",")
    IN  SelectSeq([j \in 1..(Len(fields) - 3) |-> TrimSpace(fields[j + 3])],
                  LAMBDA t : Contains(t, "="))

\* the line of its source from which a node was parsed
LineOf(n) ==
    LET ls == SelectSeq(subs[n.Source],
                        LAMBDA l : Contains(l, "=") /\ TrimSpace(SplitN2(l, "=")[1]) = n.OriginName)
    IN  ls[1]

\* the parameter tokens of a manifest line
RenderedParams(line) ==
    LET text == From(line, Index(line, ", ") + 2)
    IN  IF text = "" THEN <<>> ELSE Split(text, ",")

\* C29: for every published node the rendered parameter list is the node's
\* original k=v tokens in their original order (as the publisher prints
\* them, =true as =1 and =false as =0), followed by the keys added to params
\* after parsing, each exactly once; no original token is moved or removed.
C29_ParamsKept ==
    (pc = "done" /\ written) =>
        \A i \in 1..Len(published) :
            LET n     == published[i]
                orig  == KvTokens(LineOf(n))
                keys  == {SplitN2(orig[j], "=")[1] : j \in 1..Len(orig)}
                added == (DOMAIN heap[n.Params] \ {"_newname"}) \ keys
                toks  == RenderedParams(ManifestLines[i])
            IN  /\ Len(toks) = Len(orig) + Cardinality(added)
                /\ \A j \in 1..Len(orig) : toks[j] = Booleans(orig[j])
                /\ \A k \in added :
                       Cardinality({j \in (Len(orig) + 1)..Len(toks) :
                                       SplitN2(toks[j], "=")[1] = k}) = 1

\* a written line carries two original tokens in their order and then the
\* sni that ingress added
C29_Witness ==
    /\ pc = "done"
    /\ written
    /\ \E i \in 1..Len(published) :
           /\ published[i].OriginName = "n2"
           /\ RenderedParams(ManifestLines[i]) = << "password=p", "tfo=1", "sni=a.io" >>

(***************************************************************************)
(* Properties of the counters during a run                                 *)
(***************************************************************************)

\* a step of a run lowers no counter
C30_Step ==
    \A s \in DOMAIN stats :
        /\ s \in DOMAIN stats'
        /\ stats'[s].Duplicated >= stats[s].Duplicated
        /\ stats'[s].Failed >= stats[s].Failed
        /\ pc' # "publish" => stats'[s].Total >= stats[s].Total

\* C30: during one run the duplicated and failed counters of every source
\* never decrease from one state to the next, and total never decreases
\* before the recomputation at the end of egress, in every interleaving of
\* the egress workers.
C30_CountersMonotonic == [][C30_Step]_vars

(***************************************************************************)
(* C31: what egress leaves behind                                          *)
(***************************************************************************)

\* the nodes of list that carry an ISO and an Emoji, in the order of list
RECURSIVE Survivors(_)
Survivors(list) ==
    IF Len(list) = 0 THEN <<>>
    ELSE (IF list[1].ISO = "" \/ list[1].Emoji = "" THEN <<>> ELSE << list[1] >>)
             \o Survivors(Tail(list))

\* how many nodes of list come from source s
CountOf(list, s) == Cardinality({i \in 1..Len(list) : list[i].Source = s})

\* the step on which egress returns
C31_Step ==
    (pc = "egress" /\ pc' = "publish") =>
        /\ \A i \in 1..Len(nodes) : i \in DOMAIN probes /\ probes[i] = 1
        /\ nodes' = Survivors(nodes)
        /\ DOMAIN stats' = DOMAIN stats
        /\ \A s \in DOMAIN stats' : stats'[s].Total = CountOf(nodes', s)

\* C31: when egress returns, every node of the list has been probed, the
\* list is cut down to the nodes that carry both an ISO and an Emoji, in
\* the order they had, and the Total of every source in the stats table is
\* the number of nodes of that source in the list that is left.
C31_EgressFilters == [][C31_Step]_vars

\* egress returned a list of two or more nodes after it dropped a node, and
\* it lowered the Total of a source to the number of its nodes that are left
C31_Witness ==
    /\ pc = "publish"
    /\ Len(nodes) >= 2
    /\ Len(nodes) < Len(ingressOut)
    /\ \E s \in DOMAIN stats :
           /\ stats[s].Total = CountOf(nodes, s)
           /\ stats[s].Total < CountOf(ingressOut, s)
           /\ stats[s].Total > 0

(***************************************************************************)
(* C32: the DoH queries of one ingress                                     *)
(***************************************************************************)

\* the domain names among the domain nodes
Domains == {domainNodes[i].Server : i \in 1..Len(domainNodes)}

\* the queries issued so far: those under way and those that have ended
QueriesIssued == Cardinality(flight) + Len(dnsResults)

\* C32: during one ingress no more DoH queries are issued than there are
\* distinct domain names among the domain nodes, and once every node has
\* its result the queries issued are exactly as many as the names; every
\* result pairs a node with the answers for its own domain.
C32_OneQueryPerDomain ==
    /\ QueriesIssued <= Cardinality(Domains)
    /\ (pc = "dns" /\ dnsPending = {}) => QueriesIssued = Cardinality(Domains)
    /\ \A r \in 1..Len(dnsResults) :
           dnsResults[r].ips = resolveA1_1_1_1(dnsResults[r].node.Server)

(***************************************************************************)
(* C33: the ISO a probe stores                                             *)
(***************************************************************************)

\* the first line starting with "loc=" in the answers of the trace
\* endpoints, in the order they are asked, or "" without one
RECURSIVE FirstLoc(_)
FirstLoc(resps) ==
    IF Len(resps) = 0 THEN ""
    ELSE LET lines == IF resps[1].err THEN <<>> ELSE Split(resps[1].body, "\n")
             at    == {k \in 1..Len(lines) : HasPrefix(lines[k], "loc=")}
         IN  IF at = {} THEN FirstLoc(Tail(resps))
             ELSE lines[CHOOSE k \in at : \A j \in at : k <= j]

\* C33: the ISO a probe stored on a node is exactly the two characters that
\* follow loc= on the first line of the trace response that starts with
\* loc=, and every ISO of a written manifest has length two.
C33_IsoTwoChars ==
    /\ \A i \in 1..Len(nodes) :
           (pc = "egress" /\ nodes[i].ISO # "") =>
               nodes[i].ISO = SubSeq(FirstLoc(TraceOf(nodes[i].Server)), 5, 6)
    /\ \A i \in 1..Len(published) : written => Len(published[i].ISO) = 2

(***************************************************************************)
(* C34: concurrentDNSQuery returns one result per node                     *)
(***************************************************************************)

\* concurrentDNSQuery has returned
DnsReturned == pc = "fission"

\* the results are the input nodes, each once and with the answer for its
\* own server, in some order
OneResultEach ==
    /\ Len(dnsResults) = Len(domainNodes)
    /\ \E f \in [1..Len(dnsResults) -> 1..Len(domainNodes)] :
           /\ \A a, b \in 1..Len(dnsResults) : a # b => f[a] # f[b]
           /\ \A r \in 1..Len(dnsResults) :
                  /\ dnsResults[r].node = domainNodes[f[r]]
                  /\ dnsResults[r].ips = resolveA1_1_1_1(domainNodes[f[r]].Server)

GroupNames(n, k) ==
    {n.Source \o " " \o n.ISO \o n.Emoji \o "-" \o Pad02(o) : o \in 1..k}

\* C35: in a manifest written by the renaming publisher the display names
\* printed for the n nodes of a (source, iso) group carry the ordinals 1..n,
\* each once, also when nodes of the group are clones of one domain node
\* and share one Params map.
C35_RenamedOrdinals ==
    (pc = "done" /\ Renaming /\ written) =>
        LET lines == Split(rendered, "\n")
        IN  /\ Len(lines) = Len(published)
            /\ \A i \in 1..Len(published) :
                   LET g == {j \in 1..Len(published) : SameGroup(published[j], published[i])}
                   IN  /\ {DisplayName(lines[j]) : j \in g}
                              = GroupNames(published[i], Cardinality(g))
                       /\ \A a, b \in g :
                              a # b => DisplayName(lines[a]) # DisplayName(lines[b])

(***************************************************************************)
(* C36: what publication changes in a line                                 *)
(***************************************************************************)

\* a k=v token with the value true or false written as 1 or 0, and any
\* other token as it is
Encoded(tok) ==
    LET kv == SplitN2(tok, "=")
    IN  IF kv[2] = "true" THEN kv[1] \o "=1"
        ELSE IF kv[2] = "false" THEN kv[1] \o "=0"
        ELSE tok

\* C36: a written line carries the type, the server and the port of its
\* node verbatim, a display name made of the node's source, ISO and Emoji,
\* and every original parameter with its value verbatim unless the value is
\* exactly true or false, which are written 1 and 0.
C36_OnlyBooleansChange ==
    (pc = "done" /\ written) =>
        \A i \in 1..Len(published) :
            LET n    == published[i]
                orig == KvTokens(LineOf(n))
                toks == RenderedParams(ManifestLines[i])
            IN  /\ TripleOfLine(ManifestLines[i]) = TripleOf(n)
                /\ HasPrefix(DisplayName(ManifestLines[i]), n.Source \o " ")
                /\ Contains(DisplayName(ManifestLines[i]), n.ISO \o n.Emoji)
                /\ Len(toks) >= Len(orig)
                /\ \A j \in 1..Len(orig) : toks[j] = Encoded(orig[j])

(***************************************************************************)
(* C37: the log after a rotation                                           *)
(***************************************************************************)

\* C37: once the rotator has called CloseLog and InitLog for a new Monday,
\* the output of the logger is an open file, the one named after that
\* Monday, and never a closed file.
C37_LogsToNewFile ==
    (switches > 0 /\ rot = "sleep") =>
        /\ logOut # 0
        /\ files[logOut].open
        /\ files[logOut].path = "log/" \o Itoa(monday)

=============================================================================
